---- MODULE Spec2Model ----
(***************************************************************************)
(* Model of the bucket-key permission binding of terraform-provider-garage *)
(* (garage/resource_bucket_key.go): the CRUD handlers, the permission      *)
(* reconciler ensureBucketKeyPermissions, the directory lookup             *)
(* fetchBucketKeyState, and the remote Garage admin API they talk to; and  *)
(* of the bucket alias binding (garage/resource_bucket_alias.go): its      *)
(* Create, Read and Delete handlers and parseAliasID.                      *)
(* Every remote call of a handler is one step, so that the states between  *)
(* two calls of one handler are states of the model.                       *)
(* Spec is the bucket-key binding, SpecAlias the alias binding; each       *)
(* leaves the variables of the other at rest.                              *)
(***************************************************************************)
EXTENDS Naturals, Sequences, FiniteSets, TLC

(***************************************************************************)
(* Bounds of the model.                                                    *)
(***************************************************************************)
\* number of distinct key names an access key can carry in the directory
NumKeyNames == 2
\* number of times in a row the orchestration layer runs Delete on a binding
MaxDeletes == 2
\* number of distinct alias names in the directory and in configurations
NumAliases == 2

BucketIds == {"b1"}
KeyIds == {"k1", "k2"}
KeyNames == {"name" \o ToString(i) : i \in 1..NumKeyNames}

(***************************************************************************)
(* bucketKeyPermissions and garage.ApiBucketKeyPerm.  An ApiBucketKeyPerm  *)
(* field is a *bool that the code only ever sets to true; FALSE stands for *)
(* the field left unset.                                                   *)
(***************************************************************************)
bucketKeyPermissions == [Owner : BOOLEAN, Read : BOOLEAN, Write : BOOLEAN]

NewApiBucketKeyPerm == [Owner |-> FALSE, Read |-> FALSE, Write |-> FALSE]

any(p) == p.Owner \/ p.Read \/ p.Write

hasAnyBucketKeyPerm(perm) == perm.Read \/ perm.Write \/ perm.Owner

(***************************************************************************)
(* The remote bucket directory.  buckets[b] is NoBucket or the bucket with *)
(* its key list: keys[k] is NoEntry when key k is not listed on the        *)
(* bucket, else a listed entry with its permissions.  keyNames[k] is the   *)
(* name of access key k, reported in every entry of that key.              *)
(***************************************************************************)
NoEntry == [listed |-> FALSE, Permissions |-> NewApiBucketKeyPerm]

Entries == {NoEntry} \cup [listed : {TRUE}, Permissions : bucketKeyPermissions]

NoBucket == [exists |-> FALSE, keys |-> [k \in KeyIds |-> NoEntry]]

Buckets == {NoBucket} \cup [exists : {TRUE}, keys : [KeyIds -> Entries]]

VARIABLES
    buckets,    \* remote: bucket id -> NoBucket or bucket info
    keyNames,   \* remote: access key id -> key name
    d,          \* schema.ResourceData of the bucket-key binding: what d.Id() and
                \* d.Get return (the prior state overlaid with the planned values
                \* and the d.Set calls), which is what is stored when the
                \* handler returns
    pc,         \* position of the running handler; "done" when it has returned,
                \* "idle" when no handler runs and none has just returned
    op,         \* the handler that was invoked last
    bucketID,   \* the handler's local bucketID
    keyID,      \* the handler's local keyID
    desired,    \* the handler's desired permissions (planned read/write/owner)
    current,    \* the permissions fetchBucketKeyState returned
    found,      \* the found result of fetchBucketKeyState
    allow,      \* the allow set built by ensureBucketKeyPermissions
    deny,       \* the deny set built by ensureBucketKeyPermissions / Delete
    calls,      \* remote calls the handler issued so far, in order
    diags,      \* diagnostics the handler returned: "none", "validation", "api"
    deletes,    \* how many times in a row Delete has run on the binding, each
                \* run after the success of the one before
    idBefore    \* d.Id() when the handler was entered

\* the variables of the bucket-key binding
keyVars == <<buckets, keyNames, d, pc, op, bucketID, keyID, desired, current,
             found, allow, deny, calls, diags, deletes, idBefore>>

VARIABLES
    aliasDir,   \* remote: the bucket of the alias binding, with its global
                \* aliases and the local aliases of each key
    a,          \* schema.ResourceData of the alias binding
    aBefore,    \* the alias resource data when the handler was entered
    apc,        \* position of the running alias handler
    aop,        \* the alias handler that was invoked last
    parsed,     \* what parseAliasID returned to the handler: kind, alias, keyID
    areq,       \* the request of the add-alias or remove-alias call to issue
    acalls,     \* remote calls the alias handler issued so far, in order
    adiags      \* diagnostics the alias handler returned

\* the variables of the alias binding
aliasVars == <<aliasDir, a, aBefore, apc, aop, parsed, areq, acalls, adiags>>

VARIABLES
    bucketDir,  \* remote: the bucket of garage_bucket, with its global aliases,
                \* its website access and its quotas
    bd,         \* schema.ResourceData of garage_bucket
    bBefore,    \* the bucket resource data when the handler was entered (for
                \* Update the prior state d.HasChange and d.GetChange compare with)
    bpc,        \* position of the running bucket handler
    bop,        \* the bucket handler that was invoked last
    bcalls,     \* remote calls the bucket handler issued so far, in order
    bdiags      \* diagnostics the bucket handler returned

\* the variables of the bucket resource
bucketVars == <<bucketDir, bd, bBefore, bpc, bop, bcalls, bdiags>>

VARIABLES
    akDir,      \* remote: the access key of garage_key
    akd,        \* schema.ResourceData of garage_key
    akBefore,   \* the access key resource data when the handler was entered
    akpc,       \* position of the running access key handler
    akop,       \* the access key handler that was invoked last
    akcalls,    \* remote calls the access key handler issued so far, in order
    akdiags     \* diagnostics the access key handler returned

\* the variables of the access key resource
accessKeyVars == <<akDir, akd, akBefore, akpc, akop, akcalls, akdiags>>

VARIABLES
    rop,        \* per concurrent operation: "ensure" or "delete", "none" before
    rpc,        \* per concurrent operation: its position
    rkey,       \* per concurrent operation: its keyID
    rdesired,   \* per concurrent operation: the desired permissions
    rallow,     \* per concurrent operation: the allow set it built
    rdeny,      \* per concurrent operation: the deny set it built
    rdiags,     \* per concurrent operation: the diagnostics it returned
    rcalls      \* the mutation calls the directory received, in order of arrival

\* the variables of the concurrent operations on bucket-key bindings
raceVars == <<rop, rpc, rkey, rdesired, rallow, rdeny, rdiags, rcalls>>

\* the variables of the handlers of the bucket-key binding
keyHandlerVars == <<d, pc, op, bucketID, keyID, desired, current, found, allow, deny,
                    calls, diags, deletes, idBefore>>

vars == <<buckets, keyNames, d, pc, op, bucketID, keyID, desired, current,
          found, allow, deny, calls, diags, deletes, idBefore,
          aliasDir, a, aBefore, apc, aop, parsed, areq, acalls, adiags,
          bucketVars, accessKeyVars, raceVars>>

\* what the handlers of one resource type leave alone: the other resources
nonKeyVars == <<aliasVars, bucketVars, accessKeyVars, raceVars>>

nonAliasVars == <<keyVars, bucketVars, accessKeyVars, raceVars>>

nonBucketVars == <<keyVars, aliasVars, accessKeyVars, raceVars>>

nonAccessKeyVars == <<keyVars, aliasVars, bucketVars, raceVars>>

nonRaceVars == <<keyHandlerVars, aliasVars, bucketVars, accessKeyVars>>

remoteVars == <<buckets, keyNames>>

(***************************************************************************)
(* GetBucketInfo.  The response to a lookup of bucket b: 404 when the      *)
(* bucket does not exist, else the bucket's info with one Keys element per *)
(* listed key; any lookup can also fail in transport (status "error").     *)
(***************************************************************************)
BucketInfoKeys(b) ==
    { [AccessKeyId |-> k, Name |-> keyNames[k],
       Permissions |-> buckets[b].keys[k].Permissions] :
        k \in { x \in KeyIds : buckets[b].keys[x].listed } }

GetBucketInfo(b) ==
    { [status |-> "error", Keys |-> {}] } \cup
    ( IF b \in BucketIds /\ buckets[b].exists
        THEN { [status |-> "ok", Keys |-> BucketInfoKeys(b)] }
        ELSE { [status |-> "notfound", Keys |-> {}] } )

(***************************************************************************)
(* fetchBucketKeyState: (state, keyName, found, diags) from a response.    *)
(* (The SDK gives a nil info only together with an error, so the info ==   *)
(* nil branch is the not-found result of a case that does not arise.)      *)
(***************************************************************************)
NotFoundState ==
    [state |-> NewApiBucketKeyPerm, keyName |-> "", found |-> FALSE, diags |-> "none"]

\* a lookup that surfaces the 404 of a missing bucket as an error
fetchBucketKeyState404IsError(resp, key) ==
    IF resp.status # "ok"
    THEN [state |-> NewApiBucketKeyPerm, keyName |-> "", found |-> FALSE, diags |-> "api"]
    ELSE IF \E e \in resp.Keys : e.AccessKeyId = key
         THEN LET e == CHOOSE e \in resp.Keys : e.AccessKeyId = key
              IN [state |-> e.Permissions, keyName |-> e.Name, found |-> TRUE,
                  diags |-> "none"]
         ELSE NotFoundState

\* a lookup that takes a listed key without comparing its access-key id
fetchBucketKeyStateAnyKey(resp, key) ==
    IF resp.status # "ok"
    THEN IF resp.status = "notfound"
         THEN NotFoundState
         ELSE [state |-> NewApiBucketKeyPerm, keyName |-> "", found |-> FALSE, diags |-> "api"]
    ELSE IF resp.Keys # {}
         THEN LET e == CHOOSE e \in resp.Keys : TRUE
              IN [state |-> e.Permissions, keyName |-> e.Name, found |-> TRUE,
                  diags |-> "none"]
         ELSE NotFoundState

fetchBucketKeyState(resp, key) ==
    IF resp.status # "ok"
    THEN IF resp.status = "notfound"
         THEN NotFoundState
         ELSE [state |-> NewApiBucketKeyPerm, keyName |-> "", found |-> FALSE, diags |-> "api"]
    ELSE IF \E e \in resp.Keys : e.AccessKeyId = key
         THEN LET e == CHOOSE e \in resp.Keys : e.AccessKeyId = key
              IN [state |-> [Read |-> e.Permissions.Read,
                             Write |-> e.Permissions.Write,
                             Owner |-> e.Permissions.Owner],
                  keyName |-> e.Name, found |-> TRUE, diags |-> "none"]
         ELSE NotFoundState

(***************************************************************************)
(* The allow and deny sets of ensureBucketKeyPermissions.                  *)
(***************************************************************************)
\* a reconciler that allows every desired flag, changed or not
EnsureAllowAllDesired(want, cur) ==
    [Read |-> want.Read, Write |-> want.Write, Owner |-> want.Owner]

EnsureAllow(want, cur) ==
    [Read  |-> want.Read /\ ~cur.Read,
     Write |-> want.Write /\ ~cur.Write,
     Owner |-> want.Owner /\ ~cur.Owner]

\* a reconciler that never revokes
EnsureDenyNothing(want, cur) == NewApiBucketKeyPerm

EnsureDeny(want, cur) ==
    [Read  |-> ~want.Read /\ cur.Read,
     Write |-> ~want.Write /\ cur.Write,
     Owner |-> ~want.Owner /\ cur.Owner]

\* a reconciler that revokes before it grants
EnsureOrderDenyFirst == <<"deny", "allow">>

\* the order in which ensureBucketKeyPermissions applies its two sets
EnsureOrder == <<"allow", "deny">>

(***************************************************************************)
(* The deny set of resourceBucketKeyDelete: every flag currently true.     *)
(***************************************************************************)
\* a delete that revokes all three flags, held or not
DeleteDenyAll(cur) == [Read |-> TRUE, Write |-> TRUE, Owner |-> TRUE]

DeleteDeny(cur) ==
    [Read |-> cur.Read, Write |-> cur.Write, Owner |-> cur.Owner]

(***************************************************************************)
(* AllowBucketKey / DenyBucketKey on the remote.  Allow sets the flags of  *)
(* the request on the key's entry, creating the entry when the key was not *)
(* listed.  Deny clears them; an entry left without any flag stays listed  *)
(* (the key still has a local alias on the bucket) or disappears from the  *)
(* key list.  Both fail on a bucket that does not exist.                   *)
(***************************************************************************)
AllowBucketKey(e, perm) ==
    { [listed |-> TRUE,
       Permissions |-> [Read  |-> e.Permissions.Read \/ perm.Read,
                        Write |-> e.Permissions.Write \/ perm.Write,
                        Owner |-> e.Permissions.Owner \/ perm.Owner]] }

DenyBucketKey(e, perm) ==
    IF ~e.listed THEN { NoEntry }
    ELSE LET left == [Read  |-> e.Permissions.Read /\ ~perm.Read,
                      Write |-> e.Permissions.Write /\ ~perm.Write,
                      Owner |-> e.Permissions.Owner /\ ~perm.Owner]
         IN IF any(left)
            THEN { [listed |-> TRUE, Permissions |-> left] }
            ELSE { [listed |-> TRUE, Permissions |-> left], NoEntry }

\* the permissions key k holds on bucket b in the directory
RemotePerms(b, k) ==
    IF b \in BucketIds /\ k \in KeyIds
    THEN buckets[b].keys[k].Permissions
    ELSE NewApiBucketKeyPerm

(***************************************************************************)
(* Records of the call log: the function that issued the call, the API,    *)
(* the request (bucket, key, permission body) and the status it ended      *)
(* with; for a lookup also what fetchBucketKeyState made of the response.  *)
(***************************************************************************)
LookupCall(by, b, status, r) ==
    [by |-> by, api |-> "GetBucketInfo", bucket |-> b, key |-> "",
     perm |-> NewApiBucketKeyPerm, status |-> status,
     found |-> r.found, state |-> r.state, keyName |-> r.keyName]

MutationCall(by, api, b, k, perm, status) ==
    [by |-> by, api |-> api, bucket |-> b, key |-> k, perm |-> perm, status |-> status,
     found |-> FALSE, state |-> NewApiBucketKeyPerm, keyName |-> ""]

\* a handler that goes on after a failed mutation call
AfterMutationIgnoringFailure(failed, next) == next

\* what a handler does after a mutation call: return its error, or go on
AfterMutation(failed, next) == IF failed THEN "done" ELSE next

\* the identifier resourceBucketKeyCreate sets: fmt.Sprintf("%s:%s", bucketID, keyID)
BucketKeyId(b, k) == b \o ":" \o k

Ids == {""} \cup { BucketKeyId(b, k) : b \in BucketIds, k \in KeyIds }

\* the resource data Create is handed: no identifier, the planned
\* attributes, the computed key_name unknown
NewResourceData(b, k, want) ==
    [id |-> "", bucket_id |-> b, access_key_id |-> k,
     read |-> want.Read, write |-> want.Write, owner |-> want.Owner, key_name |-> ""]

\* before anything is created
NoResourceData == NewResourceData("", "", NewApiBucketKeyPerm)

\* a plan check that lets every permission set through
CustomizeDiffAcceptsAll(perms) == "none"

\* CustomizeDiff of resourceBucketKey, run when the change is planned: the
\* diagnostics it gives
CustomizeDiff(perms) == IF ~any(perms) THEN "validation" ELSE "none"

\* desiredBucketKeyPermissions
desiredBucketKeyPermissions(data) ==
    [Read |-> data.read, Write |-> data.write, Owner |-> data.owner]

(***************************************************************************)
(* Strings of the alias binding.  parseAliasID takes identifiers apart at  *)
(* their colons, so a string is modelled by its strings.Split(s, ":"): the *)
(* non-empty sequence of its colon-free segments.  "global:a" is           *)
(* <<"global", "a">>, the empty string is <<"">>, a string without colon   *)
(* has one segment, and fmt.Sprintf("x:%s:%s", s, t) is <<"x">> \o s \o t. *)
(***************************************************************************)
EmptyString == <<"">>

AliasNames == { <<"alias" \o ToString(i)>> : i \in 1..NumAliases }

AliasKeyIds == { <<k>> : k \in KeyIds }

AliasBucketId == "b1"

\* strings.HasPrefix(s, word + ":")
HasPrefix(s, word) == Len(s) >= 2 /\ s[1] = word

\* strings.TrimPrefix(s, word + ":") of a string with that prefix
TrimPrefix(s) == Tail(s)

\* strings.SplitN(s, ":", 2)
SplitN2(s) == IF Len(s) = 1 THEN <<s>> ELSE << <<Head(s)>>, Tail(s) >>

\* fmt.Sprintf("global:%s", global)
GlobalAliasId(alias) == <<"global">> \o alias

\* fmt.Sprintf("local:%s:%s", keyID, local)
LocalAliasId(key, alias) == <<"local">> \o key \o alias

\* identifiers no Create has produced: a stored identifier from before the
\* identifier format, and a local identifier without its key:alias split
LegacyAliasIds == { <<"unexpected">>, <<"local", "malformed">> }

AliasIds ==
    {EmptyString} \cup LegacyAliasIds
    \cup { GlobalAliasId(x) : x \in AliasNames }
    \cup { LocalAliasId(k, x) : k \in AliasKeyIds, x \in AliasNames }

(***************************************************************************)
(* schema.ResourceData of garage_bucket_alias.                             *)
(***************************************************************************)
NewAliasData(g, l, k) ==
    [id |-> EmptyString, bucket_id |-> AliasBucketId, global_alias |-> g,
     local_alias |-> l, access_key_id |-> k, kind |-> ""]

NoAliasData == NewAliasData(EmptyString, EmptyString, EmptyString)

AliasData ==
    [id : AliasIds, bucket_id : {AliasBucketId},
     global_alias : AliasNames \cup {EmptyString},
     local_alias : AliasNames \cup {EmptyString},
     access_key_id : AliasKeyIds \cup {EmptyString},
     kind : {"", "global", "local"}]

(***************************************************************************)
(* parseAliasID: kind, alias and keyID from the identifier, falling back   *)
(* to the configured fields.                                               *)
(***************************************************************************)
\* a parse that looks at the configured fields before the identifier
parseAliasIDFieldsFirst(id, data) ==
    IF data.global_alias # EmptyString
    THEN [kind |-> "global", alias |-> data.global_alias, keyID |-> EmptyString]
    ELSE IF data.local_alias # EmptyString
    THEN [kind |-> "local", alias |-> data.local_alias, keyID |-> data.access_key_id]
    ELSE IF HasPrefix(id, "global")
    THEN [kind |-> "global", alias |-> TrimPrefix(id), keyID |-> EmptyString]
    ELSE IF HasPrefix(id, "local") /\ Len(SplitN2(TrimPrefix(id))) = 2
    THEN [kind |-> "local", alias |-> SplitN2(TrimPrefix(id))[2],
          keyID |-> SplitN2(TrimPrefix(id))[1]]
    ELSE [kind |-> "local", alias |-> data.local_alias, keyID |-> data.access_key_id]

\* a parse that takes local:<x> for a local identifier of key x without alias
parseAliasIDMalformedAsLocal(id, data) ==
    IF HasPrefix(id, "global")
    THEN [kind |-> "global", alias |-> TrimPrefix(id), keyID |-> EmptyString]
    ELSE IF HasPrefix(id, "local")
    THEN IF Len(SplitN2(TrimPrefix(id))) = 2
         THEN [kind |-> "local", alias |-> SplitN2(TrimPrefix(id))[2],
               keyID |-> SplitN2(TrimPrefix(id))[1]]
         ELSE [kind |-> "local", alias |-> EmptyString, keyID |-> TrimPrefix(id)]
    ELSE IF data.global_alias # EmptyString
    THEN [kind |-> "global", alias |-> data.global_alias, keyID |-> EmptyString]
    ELSE [kind |-> "local", alias |-> data.local_alias, keyID |-> data.access_key_id]

\* a parse whose fallback prefers the local fields
parseAliasIDLocalFallbackFirst(id, data) ==
    IF HasPrefix(id, "global")
    THEN [kind |-> "global", alias |-> TrimPrefix(id), keyID |-> EmptyString]
    ELSE IF HasPrefix(id, "local") /\ Len(SplitN2(TrimPrefix(id))) = 2
    THEN [kind |-> "local", alias |-> SplitN2(TrimPrefix(id))[2],
          keyID |-> SplitN2(TrimPrefix(id))[1]]
    ELSE IF data.local_alias # EmptyString
    THEN [kind |-> "local", alias |-> data.local_alias, keyID |-> data.access_key_id]
    ELSE [kind |-> "global", alias |-> data.global_alias, keyID |-> EmptyString]

parseAliasID(id, data) ==
    IF HasPrefix(id, "global")
    THEN [kind |-> "global", alias |-> TrimPrefix(id), keyID |-> EmptyString]
    ELSE IF HasPrefix(id, "local") /\ Len(SplitN2(TrimPrefix(id))) = 2
    THEN [kind |-> "local", alias |-> SplitN2(TrimPrefix(id))[2],
          keyID |-> SplitN2(TrimPrefix(id))[1]]
    ELSE IF data.global_alias # EmptyString
    THEN [kind |-> "global", alias |-> data.global_alias, keyID |-> EmptyString]
    ELSE [kind |-> "local", alias |-> data.local_alias, keyID |-> data.access_key_id]

NoParse == [kind |-> "", alias |-> EmptyString, keyID |-> EmptyString]

(***************************************************************************)
(* The directory entry of the alias binding's bucket: whether the bucket   *)
(* exists, its global aliases, and for each access key the local aliases   *)
(* the key has for the bucket.                                             *)
(***************************************************************************)
NoAliasDir ==
    [exists |-> FALSE, GlobalAliases |-> {}, LocalAliases |-> [k \in AliasKeyIds |-> {}]]

AliasDirs ==
    {NoAliasDir} \cup
    [exists : {TRUE}, GlobalAliases : SUBSET AliasNames,
     LocalAliases : [AliasKeyIds -> SUBSET AliasNames]]

\* info.GetKeys(): one garage.GetBucketInfoKey per key that has a local alias
\* for the bucket, with the fields the SDK's struct has
AliasInfoKeys ==
    { [AccessKeyId |-> k, BucketLocalAliases |-> aliasDir.LocalAliases[k]] :
        k \in { x \in AliasKeyIds : aliasDir.LocalAliases[x] # {} } }

\* the responses BucketAPI.GetBucketInfo can give for bucket b
GetAliasBucketInfo(b) ==
    { [status |-> "error", GlobalAliases |-> {}, Keys |-> {}] } \cup
    ( IF b = AliasBucketId /\ aliasDir.exists
        THEN { [status |-> "ok", GlobalAliases |-> aliasDir.GlobalAliases,
                Keys |-> AliasInfoKeys] }
        ELSE { [status |-> "notfound", GlobalAliases |-> {}, Keys |-> {}] } )

\* keyMatchesAccessKeyID: a string field of the key struct, under one of the
\* names tried, equals want
keyMatchesAccessKeyID(key, want) ==
    \E name \in {"AccessKeyId", "AccessKeyID", "Id", "ID"} :
        name \in DOMAIN key /\ key[name] = want

\* the field names keyHasLocalAlias tries; it also tries a getter Get<name>
\* for each, and garage.GetBucketInfoKey has none of these
LocalAliasFieldNames ==
    {"LocalAliases", "Aliases", "LocalAlias", "LocalAliasesList", "LocalAliasesMap"}

\* keyHasLocalAlias: a field of the key struct, under one of the names
\* tried, holds the alias
keyHasLocalAlias(key, alias) ==
    \E name \in LocalAliasFieldNames :
        name \in DOMAIN key /\ alias \in key[name]

(***************************************************************************)
(* CustomizeDiff of resourceBucketAlias, run when the change is planned.   *)
(***************************************************************************)
\* a plan check that lets every alias configuration through
AliasCustomizeDiffAcceptsAll(g, l, k) == "none"

AliasCustomizeDiff(g, l, k) ==
    LET hasGlobal == g # EmptyString
        hasLocal == l # EmptyString \/ k # EmptyString
    IN IF ~hasGlobal /\ ~hasLocal THEN "validation"
       ELSE IF hasGlobal /\ hasLocal THEN "validation"
       ELSE "none"

\* the request body of AddBucketAlias and RemoveBucketAlias
AliasRequest(g, k, l) == [globalAlias |-> g, accessKeyId |-> k, localAlias |-> l]

NoAliasRequest == AliasRequest(EmptyString, EmptyString, EmptyString)

\* a remote call in the alias handler's log
AliasCall(api, req, status) == [api |-> api, req |-> req, status |-> status]

AliasTypeOK ==
    /\ aliasDir \in AliasDirs
    /\ a \in AliasData
    /\ aBefore \in AliasData
    /\ apc \in {"idle", "done", "add", "read", "remove"}
    /\ aop \in {"none", "create", "read", "delete"}
    /\ parsed.kind \in {"", "global", "local"}
    /\ adiags \in {"none", "validation", "api"}
    /\ Len(acalls) <= 2

\* no alias handler runs and no alias binding exists
AliasAtRest ==
    /\ aliasDir = NoAliasDir
    /\ a = NoAliasData
    /\ aBefore = NoAliasData
    /\ apc = "idle"
    /\ aop = "none"
    /\ parsed = NoParse
    /\ areq = NoAliasRequest
    /\ acalls = <<>>
    /\ adiags = "none"

(***************************************************************************)
(* The bucket resource garage_bucket (garage/resource_bucket.go).  The     *)
(* directory has room for the one bucket the resource manages; it carries  *)
(* the bucket's global aliases, whether website access is enabled (then    *)
(* with the index document) and whether quotas are set.                    *)
(***************************************************************************)
\* resp.Id of CreateBucket
NewBucketId == "bucket"

GlobalAliasNames == {"old", "new"}

IndexDocument == "index.html"

NoBucketDir ==
    [exists |-> FALSE, GlobalAliases |-> {}, WebsiteAccess |-> FALSE, Quotas |-> FALSE]

BucketDirs ==
    {NoBucketDir} \cup
    [exists : {TRUE}, GlobalAliases : SUBSET GlobalAliasNames,
     WebsiteAccess : BOOLEAN, Quotas : BOOLEAN]

\* the resource data resourceBucketCreate is handed: no identifier, the
\* planned inputs (quotas: whether the block is there), nothing computed
NewBucketData(g, web, idx, q) ==
    [id |-> "", global_alias |-> g, website_access_enabled |-> web,
     website_config_index_document |-> idx, quotas |-> q, global_aliases |-> {}]

NoBucketData == NewBucketData("", FALSE, "", FALSE)

BucketData ==
    [id : {"", NewBucketId}, global_alias : GlobalAliasNames \cup {""},
     website_access_enabled : BOOLEAN,
     website_config_index_document : {"", IndexDocument},
     quotas : BOOLEAN, global_aliases : SUBSET GlobalAliasNames]

\* CustomizeDiff of resourceBucket, run when the change is planned
BucketCustomizeDiff(web, idx) ==
    IF web /\ idx = "" THEN "validation" ELSE "none"

\* the responses BucketAPI.GetBucketInfo can give for the bucket with this id
GetBucketInfoById(id) ==
    { [status |-> "error", info |-> NoBucketDir] } \cup
    ( IF id = NewBucketId /\ bucketDir.exists
        THEN { [status |-> "ok", info |-> bucketDir] }
        ELSE { [status |-> "notfound", info |-> NoBucketDir] } )

\* flattenBucketInfo and the d.Set loop of resourceBucketRead
flattenBucketInfo(data, bucket) ==
    [data EXCEPT !.global_aliases = bucket.GlobalAliases,
                 !.website_access_enabled = bucket.WebsiteAccess,
                 !.website_config_index_document =
                     IF bucket.WebsiteAccess THEN IndexDocument ELSE @,
                 !.quotas = IF bucket.Quotas THEN TRUE ELSE @]

\* a remote call in the bucket handler's log
BucketCall(api, alias, status) == [api |-> api, alias |-> alias, status |-> status]

\* d.HasChange("global_alias")
BucketAliasChanged(prior, data) == prior.global_alias # data.global_alias

\* an update that drops the old alias before it adds the new one
BucketAliasOrderRemoveFirst == <<"remove", "add">>

\* resourceBucketUpdate: add->remove (rename semantics)
BucketAliasOrder == <<"add", "remove">>

\* buildWebsiteAccess: nil unless website_access_enabled is set (GetOk of a
\* false bool is not ok); "validation" when the index document is missing
buildWebsiteAccess(data) ==
    IF data.website_access_enabled
    THEN IF data.website_config_index_document = ""
         THEN [diags |-> "validation", nil |-> TRUE]
         ELSE [diags |-> "none", nil |-> FALSE]
    ELSE [diags |-> "none", nil |-> TRUE]

\* buildQuotas: nil unless the quotas block is there (the block's map always
\* has both max_size and max_objects)
buildQuotas(data) == [diags |-> "none", nil |-> ~data.quotas]

\* resourceBucketUpdate: "If nothing else to update, just refresh state"
BucketNothingToUpdate(prior, data) ==
    /\ buildWebsiteAccess(data).nil
    /\ buildQuotas(data).nil
    /\ ~BucketAliasChanged(prior, data)

BucketTypeOK ==
    /\ bucketDir \in BucketDirs
    /\ bd \in BucketData
    /\ bBefore \in BucketData
    /\ bpc \in {"idle", "done", "create", "alias_1", "alias_2", "update", "read", "delete"}
    /\ bop \in {"none", "create", "read", "update", "delete"}
    /\ bdiags \in {"none", "validation", "api"}
    /\ Len(bcalls) <= 4

\* no bucket handler runs and no bucket resource exists
BucketAtRest ==
    /\ bucketDir = NoBucketDir
    /\ bd = NoBucketData
    /\ bBefore = NoBucketData
    /\ bpc = "idle"
    /\ bop = "none"
    /\ bcalls = <<>>
    /\ bdiags = "none"

(***************************************************************************)
(* The access key resource garage_key.                                     *)
(***************************************************************************)
\* resp.GetAccessKeyId() of CreateKey
NewAccessKeyId == "GK1"

AccessKeyNames == {"application-key", "renamed-key"}

\* expiration inputs: none, one that parses as RFC3339, one that does not
Expirations == {"", "2030-01-01T00:00:00Z", "tomorrow"}

\* permissions inputs: no block, or a block with read
KeyPermissions == {"", "read"}

NoAccessKeyDir == [exists |-> FALSE, name |-> "", permissions |-> ""]

AccessKeyDirs ==
    {NoAccessKeyDir} \cup
    [exists : {TRUE}, name : AccessKeyNames \cup {""}, permissions : KeyPermissions]

NewAccessKeyData(name, exp, perm) ==
    [id |-> "", name |-> name, expiration |-> exp, permissions |-> perm,
     access_key_id |-> "", effective_permissions |-> ""]

NoAccessKeyData == NewAccessKeyData("", "", "")

AccessKeyData ==
    [id : {"", NewAccessKeyId}, name : AccessKeyNames \cup {""},
     expiration : Expirations, permissions : KeyPermissions,
     access_key_id : {"", NewAccessKeyId}, effective_permissions : KeyPermissions]

\* buildUpdateKeyRequestBody: the diagnostics it gives (time.Parse of the
\* expiration)
buildUpdateKeyRequestBody(data) ==
    IF data.expiration = "tomorrow" THEN "validation" ELSE "none"

\* the responses AccessKeyAPI.GetKeyInfo can give for the key with this id
GetKeyInfo(id) ==
    { [status |-> "error", info |-> NoAccessKeyDir] } \cup
    ( IF id = NewAccessKeyId /\ akDir.exists
        THEN { [status |-> "ok", info |-> akDir] }
        ELSE { [status |-> "notfound", info |-> NoAccessKeyDir] } )

\* the d.Set calls on a key info: access_key_id and flattenKeyInfo
flattenKeyInfo(data, info) ==
    [data EXCEPT !.access_key_id = NewAccessKeyId,
                 !.effective_permissions = info.permissions]

\* the key after CreateKey or UpdateKey with the request body built from data
AccessKeyWritten(dir, data) ==
    [exists |-> TRUE,
     name |-> IF data.name # "" THEN data.name ELSE dir.name,
     permissions |-> IF data.permissions # "" THEN data.permissions ELSE dir.permissions]

\* resourceKeyUpdate: d.HasChange of name, expiration or permissions
AccessKeyHasChange(prior, data) ==
    \/ prior.name # data.name
    \/ prior.expiration # data.expiration
    \/ prior.permissions # data.permissions

\* a remote call in the access key handler's log
AccessKeyCall(api, status) == [api |-> api, status |-> status]

AccessKeyTypeOK ==
    /\ akDir \in AccessKeyDirs
    /\ akd \in AccessKeyData
    /\ akBefore \in AccessKeyData
    /\ akpc \in {"idle", "done", "create", "update", "read", "delete"}
    /\ akop \in {"none", "create", "read", "update", "delete"}
    /\ akdiags \in {"none", "validation", "api"}
    /\ Len(akcalls) <= 2

\* no access key handler runs and no access key resource exists
AccessKeyAtRest ==
    /\ akDir = NoAccessKeyDir
    /\ akd = NoAccessKeyData
    /\ akBefore = NoAccessKeyData
    /\ akpc = "idle"
    /\ akop = "none"
    /\ akcalls = <<>>
    /\ akdiags = "none"

(***************************************************************************)
(* Concurrent operations on bucket-key bindings: two handlers at once,     *)
(* each a reconciliation (ensureBucketKeyPermissions) or a delete          *)
(* (resourceBucketKeyDelete), on keys of the one bucket.                   *)
(***************************************************************************)
Procs == {"p1", "p2"}

RaceBucketId == "b1"

\* no concurrent operation has been started
RaceAtRest ==
    /\ rop = [p \in Procs |-> "none"]
    /\ rpc = [p \in Procs |-> "idle"]
    /\ rkey = [p \in Procs |-> ""]
    /\ rdesired = [p \in Procs |-> NewApiBucketKeyPerm]
    /\ rallow = [p \in Procs |-> NewApiBucketKeyPerm]
    /\ rdeny = [p \in Procs |-> NewApiBucketKeyPerm]
    /\ rdiags = [p \in Procs |-> "none"]
    /\ rcalls = <<>>

(***************************************************************************)
(* Provider(): the resource types of its ResourcesMap.                     *)
(***************************************************************************)
ResourcesMap == {"garage_bucket", "garage_bucket_alias", "garage_key"}

TypeOK ==
    /\ buckets \in [BucketIds -> Buckets]
    /\ keyNames \in [KeyIds -> KeyNames]
    /\ pc \in {"idle", "done", "ensure_fetch", "ensure_1", "ensure_2", "read",
               "delete_fetch", "delete_deny"}
    /\ op \in {"none", "create", "read", "update", "delete", "ensure"}
    /\ desired \in bucketKeyPermissions
    /\ current \in bucketKeyPermissions
    /\ allow \in bucketKeyPermissions
    /\ deny \in bucketKeyPermissions
    /\ found \in BOOLEAN
    /\ diags \in {"none", "validation", "api"}
    /\ deletes \in 0..MaxDeletes
    /\ idBefore \in Ids
    /\ d \in [id : Ids, bucket_id : BucketIds \cup {""}, access_key_id : KeyIds \cup {""},
              read : BOOLEAN, write : BOOLEAN, owner : BOOLEAN,
              key_name : KeyNames \cup {""}]

Init ==
    /\ buckets \in [BucketIds -> Buckets]
    /\ keyNames \in [KeyIds -> KeyNames]
    /\ d = NoResourceData
    /\ pc = "idle"
    /\ op = "none"
    /\ bucketID = ""
    /\ keyID = ""
    /\ desired = NewApiBucketKeyPerm
    /\ current = NewApiBucketKeyPerm
    /\ found = FALSE
    /\ allow = NewApiBucketKeyPerm
    /\ deny = NewApiBucketKeyPerm
    /\ calls = <<>>
    /\ diags = "none"
    /\ deletes = 0
    /\ idBefore = ""
    /\ AliasAtRest
    /\ BucketAtRest
    /\ AccessKeyAtRest
    /\ RaceAtRest

\* a handler is entered: its locals are fresh
Enter(name, b, k, want) ==
    /\ op' = name
    /\ idBefore' = IF name = "create" THEN "" ELSE d.id
    /\ bucketID' = b
    /\ keyID' = k
    /\ desired' = want
    /\ current' = NewApiBucketKeyPerm
    /\ found' = FALSE
    /\ allow' = NewApiBucketKeyPerm
    /\ deny' = NewApiBucketKeyPerm
    /\ calls' = <<>>

(***************************************************************************)
(* The create of a binding with planned attributes (b, k, want): the plan  *)
(* runs CustomizeDiff, and a plan that passed it is applied by             *)
(* resourceBucketKeyCreate, here up to its call of                         *)
(* ensureBucketKeyPermissions.                                             *)
(***************************************************************************)
Create(b, k, want) ==
    /\ UNCHANGED nonKeyVars
    /\ pc = "idle"
    /\ Enter("create", b, k, want)
    /\ deletes' = 0
    /\ IF CustomizeDiff(want) # "none"
       THEN /\ pc' = "done"
            /\ diags' = CustomizeDiff(want)
            /\ d' = NoResourceData
       ELSE /\ d' = NewResourceData(b, k, want)
            /\ IF ~any(desiredBucketKeyPermissions(d'))
               THEN pc' = "done" /\ diags' = "validation"
               ELSE pc' = "ensure_fetch" /\ diags' = "none"
    /\ UNCHANGED remoteVars

(***************************************************************************)
(* A bare call of ensureBucketKeyPermissions (the reconciler on its own,   *)
(* with any desired set).  No resource data is involved: the call is made  *)
(* while no binding has been created yet.                                  *)
(***************************************************************************)
Ensure(b, k, want) ==
    /\ UNCHANGED nonKeyVars
    /\ pc = "idle"
    /\ d = NoResourceData
    /\ Enter("ensure", b, k, want)
    /\ pc' = "ensure_fetch"
    /\ diags' = "none"
    /\ deletes' = 0
    /\ UNCHANGED <<d, buckets, keyNames>>

(***************************************************************************)
(* ensureBucketKeyPermissions: the lookup and the two sets.                *)
(***************************************************************************)
EnsureFetch ==
    /\ UNCHANGED nonKeyVars
    /\ pc = "ensure_fetch"
    /\ \E resp \in GetBucketInfo(bucketID) :
         LET r == fetchBucketKeyState(resp, keyID) IN
         /\ calls' = Append(calls, LookupCall("ensure", bucketID, resp.status, r))
         /\ IF r.diags # "none"
            THEN /\ pc' = "done"
                 /\ diags' = r.diags
                 /\ UNCHANGED <<current, found, allow, deny>>
            ELSE /\ current' = r.state
                 /\ found' = r.found
                 /\ allow' = EnsureAllow(desired, r.state)
                 /\ deny' = EnsureDeny(desired, r.state)
                 /\ pc' = "ensure_1"
                 /\ diags' = "none"
    /\ UNCHANGED <<d, buckets, keyNames, op, bucketID, keyID, desired, deletes, idBefore>>

(***************************************************************************)
(* One AllowBucketKey or DenyBucketKey call against the remote, with the   *)
(* status it ends with: "ok", "notfound" (no such bucket or key) or        *)
(* "error" (any other failure).  Only an "ok" call changes the directory.  *)
(***************************************************************************)
MutationStatuses(b, k) ==
    IF b \in BucketIds /\ k \in KeyIds /\ buckets[b].exists
    THEN {"ok", "error"}
    ELSE {"notfound", "error"}

RemoteMutation(by, api, perm, status) ==
    /\ calls' = Append(calls, MutationCall(by, api, bucketID, keyID, perm, status))
    /\ IF status = "ok"
       THEN \E e \in ( IF api = "AllowBucketKey"
                       THEN AllowBucketKey(buckets[bucketID].keys[keyID], perm)
                       ELSE DenyBucketKey(buckets[bucketID].keys[keyID], perm) ) :
               buckets' = [buckets EXCEPT ![bucketID].keys[keyID] = e]
       ELSE UNCHANGED buckets
    /\ UNCHANGED keyNames

ApiOf(kind) == IF kind = "allow" THEN "AllowBucketKey" ELSE "DenyBucketKey"

\* applyBucketKeyAllow / applyBucketKeyDeny, guarded by hasAnyBucketKeyPerm:
\* step i of ensureBucketKeyPermissions, which goes on to `next` unless the
\* call failed
EnsureApply(i, next) ==
    LET kind == EnsureOrder[i]
        perm == IF kind = "allow" THEN allow ELSE deny
    IN IF hasAnyBucketKeyPerm(perm)
       THEN \E status \in MutationStatuses(bucketID, keyID) :
              /\ RemoteMutation("ensure", ApiOf(kind), perm, status)
              /\ pc' = AfterMutation(status # "ok", next)
              /\ diags' = IF pc' = "done" /\ status # "ok" THEN "api" ELSE "none"
       ELSE /\ pc' = next
            /\ diags' = "none"
            /\ UNCHANGED <<buckets, keyNames, calls>>

EnsureFirst ==
    /\ UNCHANGED nonKeyVars
    /\ pc = "ensure_1"
    /\ EnsureApply(1, "ensure_2")
    /\ UNCHANGED <<d, op, bucketID, keyID, desired, current, found, allow, deny, deletes, idBefore>>

\* where the caller of ensureBucketKeyPermissions goes on after its success
AfterEnsure(name) == IF name = "ensure" THEN "done" ELSE "read"

\* the second step; on success Create sets the identifier, and Create and
\* Update go on to resourceBucketKeyRead
EnsureSecond ==
    /\ UNCHANGED nonKeyVars
    /\ pc = "ensure_2"
    /\ EnsureApply(2, AfterEnsure(op))
    /\ d' = IF op = "create" /\ pc' = "read"
            THEN [d EXCEPT !.id = BucketKeyId(bucketID, keyID)]
            ELSE d
    /\ UNCHANGED <<op, bucketID, keyID, desired, current, found, allow, deny, deletes, idBefore>>

(***************************************************************************)
(* The import of a binding by its identifier: the resource's Importer is   *)
(* schema.ImportStatePassthroughContext, which sets the identifier and     *)
(* nothing else; the Read or Delete that follows is handed that data.      *)
(***************************************************************************)
Import(id) ==
    /\ UNCHANGED nonKeyVars
    /\ pc = "idle"
    /\ d = NoResourceData
    /\ id # ""
    /\ d' = [NoResourceData EXCEPT !.id = id]
    /\ UNCHANGED <<buckets, keyNames, pc, op, bucketID, keyID, desired, current, found,
                   allow, deny, calls, diags, deletes, idBefore>>

(***************************************************************************)
(* resourceBucketKeyRead: entered on its own for a binding that has an     *)
(* identifier (a refresh), or at the end of Create and Update.             *)
(***************************************************************************)
Read ==
    /\ UNCHANGED nonKeyVars
    /\ pc = "idle"
    /\ d.id # ""
    /\ Enter("read", d.bucket_id, d.access_key_id, NewApiBucketKeyPerm)
    /\ pc' = "read"
    /\ diags' = "none"
    /\ deletes' = 0
    /\ UNCHANGED <<d, buckets, keyNames>>

\* a read that keeps the stored attributes
ReadSetKeepsStored(data, b, k, state, keyName) == data

\* the d.Set calls of resourceBucketKeyRead on a found entry
ReadSet(data, b, k, state, keyName) ==
    [data EXCEPT !.bucket_id = b, !.access_key_id = k,
                 !.read = state.Read, !.write = state.Write,
                 !.owner = state.Owner, !.key_name = keyName]

ReadLookup ==
    /\ UNCHANGED nonKeyVars
    /\ pc = "read"
    /\ \E resp \in GetBucketInfo(d.bucket_id) :
         LET r == fetchBucketKeyState(resp, d.access_key_id) IN
         /\ calls' = Append(calls, LookupCall("read", d.bucket_id, resp.status, r))
         /\ diags' = r.diags
         /\ d' = IF r.diags # "none"
                 THEN d
                 ELSE IF ~r.found
                      THEN [d EXCEPT !.id = ""]
                      ELSE ReadSet(d, d.bucket_id, d.access_key_id, r.state, r.keyName)
    /\ pc' = "done"
    /\ UNCHANGED <<buckets, keyNames, op, bucketID, keyID, desired, current, found,
                   allow, deny, deletes, idBefore>>

(***************************************************************************)
(* The update of the binding to the planned read/write/owner want: the     *)
(* plan runs CustomizeDiff, and a plan that passed it is applied by        *)
(* resourceBucketKeyUpdate, here up to its call of                         *)
(* ensureBucketKeyPermissions or of resourceBucketKeyRead.  The flags of d *)
(* before the step are the prior state d.HasChange compares with; in the   *)
(* handler d.Get gives the planned flags.  An update is planned for a      *)
(* binding whose attributes are stored, not for the bare identifier of an  *)
(* import.                                                                 *)
(***************************************************************************)
HasChange(prior, data) ==
    prior.read # data.read \/ prior.write # data.write \/ prior.owner # data.owner

Update(want) ==
    /\ UNCHANGED nonKeyVars
    /\ pc = "idle"
    /\ d.id # ""
    /\ d.bucket_id # ""
    /\ Enter("update", d.bucket_id, d.access_key_id, want)
    /\ deletes' = 0
    /\ IF CustomizeDiff(want) # "none"
       THEN /\ pc' = "done"
            /\ diags' = CustomizeDiff(want)
            /\ d' = d
       ELSE /\ d' = [d EXCEPT !.read = want.Read, !.write = want.Write,
                              !.owner = want.Owner]
            /\ IF ~HasChange(d, d')
               THEN pc' = "read" /\ diags' = "none"
               ELSE IF ~any(desiredBucketKeyPermissions(d'))
                    THEN pc' = "done" /\ diags' = "validation"
                    ELSE pc' = "ensure_fetch" /\ diags' = "none"
    /\ UNCHANGED <<buckets, keyNames>>

(***************************************************************************)
(* resourceBucketKeyDelete, of a binding that has an identifier, or run    *)
(* again right after a Delete that returned without error.                 *)
(***************************************************************************)
Delete ==
    /\ UNCHANGED nonKeyVars
    /\ \/ pc = "idle" /\ d.id # ""
       \/ pc = "done" /\ op = "delete" /\ diags = "none"
    /\ deletes < MaxDeletes
    /\ Enter("delete", d.bucket_id, d.access_key_id, NewApiBucketKeyPerm)
    /\ pc' = "delete_fetch"
    /\ diags' = "none"
    /\ deletes' = deletes + 1
    /\ UNCHANGED <<d, buckets, keyNames>>

DeleteFetch ==
    /\ UNCHANGED nonKeyVars
    /\ pc = "delete_fetch"
    /\ \E resp \in GetBucketInfo(bucketID) :
         LET r == fetchBucketKeyState(resp, keyID) IN
         /\ calls' = Append(calls, LookupCall("delete", bucketID, resp.status, r))
         /\ diags' = r.diags
         /\ IF r.diags # "none"
            THEN /\ pc' = "done"
                 /\ UNCHANGED <<d, current, found, deny>>
            ELSE /\ current' = r.state
                 /\ found' = r.found
                 /\ IF ~r.found
                    THEN /\ d' = [d EXCEPT !.id = ""]
                         /\ pc' = "done"
                         /\ UNCHANGED deny
                    ELSE /\ deny' = DeleteDeny(r.state)
                         /\ IF hasAnyBucketKeyPerm(deny')
                            THEN pc' = "delete_deny" /\ UNCHANGED d
                            ELSE pc' = "done" /\ d' = [d EXCEPT !.id = ""]
    /\ UNCHANGED <<buckets, keyNames, op, bucketID, keyID, desired, allow, deletes, idBefore>>

DeleteApply ==
    /\ UNCHANGED nonKeyVars
    /\ pc = "delete_deny"
    /\ \E status \in MutationStatuses(bucketID, keyID) :
         /\ RemoteMutation("delete", "DenyBucketKey", deny, status)
         /\ pc' = AfterMutation(status # "ok", "done")
         /\ diags' = IF status # "ok" THEN "api" ELSE "none"
         /\ d' = IF status # "ok" THEN d ELSE [d EXCEPT !.id = ""]
    /\ UNCHANGED <<op, bucketID, keyID, desired, current, found, allow, deny, deletes, idBefore>>

(***************************************************************************)
(* The handler has returned to the orchestration layer: its locals and its *)
(* call log are gone.                                                      *)
(***************************************************************************)
Forget ==
    /\ pc' = "idle"
    /\ op' = "none"
    /\ bucketID' = ""
    /\ keyID' = ""
    /\ desired' = NewApiBucketKeyPerm
    /\ current' = NewApiBucketKeyPerm
    /\ found' = FALSE
    /\ allow' = NewApiBucketKeyPerm
    /\ deny' = NewApiBucketKeyPerm
    /\ calls' = <<>>
    /\ diags' = "none"
    /\ deletes' = 0
    /\ idBefore' = ""

Return ==
    /\ UNCHANGED nonKeyVars
    /\ pc = "done"
    /\ Forget
    /\ UNCHANGED <<d, buckets, keyNames>>

(***************************************************************************)
(* Another writer of the directory, between two handlers: a bucket is      *)
(* created or deleted, a key entry is set, a key is renamed.               *)
(***************************************************************************)
ExternalBucket ==
    /\ UNCHANGED nonKeyVars
    /\ pc = "idle"
    /\ \E b \in BucketIds :
         buckets' = [buckets EXCEPT ![b] =
                        IF buckets[b].exists THEN NoBucket
                        ELSE [exists |-> TRUE, keys |-> [k \in KeyIds |-> NoEntry]]]
    /\ UNCHANGED <<keyNames, d, pc, op, bucketID, keyID, desired, current, found,
                   allow, deny, calls, diags, deletes, idBefore>>

ExternalEntry ==
    /\ UNCHANGED nonKeyVars
    /\ pc = "idle"
    /\ \E b \in BucketIds, k \in KeyIds, e \in Entries :
         /\ buckets[b].exists
         /\ buckets[b].keys[k] # e
         /\ buckets' = [buckets EXCEPT ![b].keys[k] = e]
    /\ UNCHANGED <<keyNames, d, pc, op, bucketID, keyID, desired, current, found,
                   allow, deny, calls, diags, deletes, idBefore>>

ExternalRename ==
    /\ UNCHANGED nonKeyVars
    /\ pc = "idle"
    /\ \E k \in KeyIds, n \in KeyNames :
         /\ keyNames[k] # n
         /\ keyNames' = [keyNames EXCEPT ![k] = n]
    /\ UNCHANGED <<buckets, d, pc, op, bucketID, keyID, desired, current, found,
                   allow, deny, calls, diags, deletes, idBefore>>

Next ==
    \/ \E b \in BucketIds, k \in KeyIds, want \in bucketKeyPermissions : Create(b, k, want)
    \/ \E b \in BucketIds, k \in KeyIds, want \in bucketKeyPermissions : Ensure(b, k, want)
    \/ EnsureFetch
    \/ EnsureFirst
    \/ EnsureSecond
    \/ \E id \in Ids : Import(id)
    \/ Read
    \/ ReadLookup
    \/ \E want \in bucketKeyPermissions : Update(want)
    \/ Delete
    \/ DeleteFetch
    \/ DeleteApply
    \/ Return
    \/ ExternalBucket
    \/ ExternalEntry
    \/ ExternalRename

Spec == Init /\ [][Next]_vars

(***************************************************************************)
(* Vocabulary of the properties.                                           *)
(***************************************************************************)
Flags == {"Read", "Write", "Owner"}

CallIdx == 1..Len(calls)

IsMutation(c) == c.api \in {"AllowBucketKey", "DenyBucketKey"}

\* a call that failed, other than a lookup that found no bucket
Failed(c) == c.status = "error" \/ (c.status = "notfound" /\ IsMutation(c))

EnsureAllowCalls == { i \in CallIdx : calls[i].by = "ensure" /\ calls[i].api = "AllowBucketKey" }

EnsureDenyCalls == { i \in CallIdx : calls[i].by = "ensure" /\ calls[i].api = "DenyBucketKey" }

\* ensureBucketKeyPermissions has run and its lookup gave it a current state
EnsureHasCurrent ==
    /\ op \in {"create", "update", "ensure"}
    /\ calls # <<>>
    /\ calls[1].by = "ensure"
    /\ ~Failed(calls[1])

\* ensureBucketKeyPermissions has returned without error
EnsureReturnedOk ==
    /\ EnsureHasCurrent
    /\ pc \in {"read", "done"}
    /\ \A i \in CallIdx : calls[i].by = "ensure" => ~Failed(calls[i])

(***************************************************************************)
(* C1. For every desired and current permission triple, the reconciler     *)
(* issues an allow call iff some flag is desired and not currently held,   *)
(* a deny call iff some flag is currently held and not desired, and no     *)
(* call carries a flag whose desired and current values are equal; the     *)
(* current triple it works from is the one the directory holds.            *)
(***************************************************************************)
C1_ReconcileDelta ==
    /\ \A i \in EnsureAllowCalls : \A f \in Flags :
         calls[i].perm[f] => (desired[f] /\ ~current[f])
    /\ \A i \in EnsureDenyCalls : \A f \in Flags :
         calls[i].perm[f] => (~desired[f] /\ current[f])
    /\ (pc = "ensure_1" => current = RemotePerms(bucketID, keyID))
    /\ EnsureReturnedOk =>
         /\ (EnsureAllowCalls # {}) <=> (\E f \in Flags : desired[f] /\ ~current[f])
         /\ (EnsureDenyCalls # {}) <=> (\E f \in Flags : current[f] /\ ~desired[f])
         /\ Cardinality(EnsureAllowCalls) <= 1
         /\ Cardinality(EnsureDenyCalls) <= 1
         /\ \A i \in EnsureAllowCalls : \A f \in Flags :
              calls[i].perm[f] <=> (desired[f] /\ ~current[f])
         /\ \A i \in EnsureDenyCalls : \A f \in Flags :
              calls[i].perm[f] <=> (~desired[f] /\ current[f])

\* an update that adds write to a binding holding read has issued one allow
\* call, for write only
C1_Witness ==
    /\ pc = "done" /\ op = "update" /\ diags = "none"
    /\ desired = [Read |-> TRUE, Write |-> TRUE, Owner |-> FALSE]
    /\ current = [Read |-> TRUE, Write |-> FALSE, Owner |-> FALSE]
    /\ Len(calls) = 3
    /\ calls[2].api = "AllowBucketKey"
    /\ calls[2].perm = [Read |-> FALSE, Write |-> TRUE, Owner |-> FALSE]
    /\ calls[3].api = "GetBucketInfo"

(***************************************************************************)
(* C2. While the reconciler runs with a desired set that has a true flag,  *)
(* no mutation call of it leaves the binding without any true flag, and    *)
(* every allow call has completed before a deny call is issued.            *)
(***************************************************************************)
C2_NeverZeroFlags ==
    /\ \A i \in EnsureDenyCalls : \A j \in EnsureAllowCalls :
         j < i /\ calls[j].status = "ok"
    /\ \A i \in EnsureDenyCalls :
         (\E f \in Flags : desired[f] /\ ~current[f]) => EnsureAllowCalls # {}
    /\ ( /\ EnsureHasCurrent
         /\ \E f \in Flags : desired[f]
         /\ \E i \in CallIdx : calls[i].by = "ensure" /\ IsMutation(calls[i])
                                 /\ calls[i].status = "ok" )
       => \E f \in Flags : RemotePerms(bucketID, keyID)[f]

\* a flip: read is revoked after write was granted
C2_Witness ==
    /\ op = "update"
    /\ desired = [Read |-> FALSE, Write |-> TRUE, Owner |-> FALSE]
    /\ current = [Read |-> TRUE, Write |-> FALSE, Owner |-> FALSE]
    /\ Len(calls) >= 3
    /\ calls[2].api = "AllowBucketKey" /\ calls[2].status = "ok"
    /\ calls[3].api = "DenyBucketKey" /\ calls[3].status = "ok"

(***************************************************************************)
(* C3. When the reconciler has returned without error, the directory holds *)
(* exactly the desired permissions for the bucket and key, whatever it     *)
(* held before (also no entry, or no such bucket), and the reconciler has  *)
(* issued at most one allow call and at most one deny call.                *)
(***************************************************************************)
C3_Converges ==
    EnsureReturnedOk =>
        /\ RemotePerms(bucketID, keyID) = desired
        /\ Cardinality(EnsureAllowCalls) <= 1
        /\ Cardinality(EnsureDenyCalls) <= 1
        /\ Cardinality({ i \in CallIdx : calls[i].by = "ensure" }) <= 3

\* the key was not listed on the bucket, and two flags were granted
C3_Witness ==
    /\ EnsureReturnedOk
    /\ op = "create" /\ pc = "done"
    /\ ~calls[1].found /\ calls[1].status = "ok"
    /\ desired = [Read |-> TRUE, Write |-> FALSE, Owner |-> TRUE]
    /\ RemotePerms(bucketID, keyID) = desired

(***************************************************************************)
(* C4. A failed remote call (any failure but a lookup's not-found) is the  *)
(* last call of its handler, which returns the error: nothing is retried,  *)
(* no deny follows a failed allow, and an allow that succeeded is not      *)
(* undone when the deny fails.                                             *)
(***************************************************************************)
C4_FailStop ==
    /\ \A i \in CallIdx :
         Failed(calls[i]) => (i = Len(calls) /\ pc = "done" /\ diags = "api")
    /\ \A i \in EnsureAllowCalls :
         (calls[i].status = "ok" /\ pc # "idle") =>
            \A f \in Flags : calls[i].perm[f] => RemotePerms(bucketID, keyID)[f]

\* the deny call failed after the allow call had succeeded
C4_Witness ==
    /\ pc = "done" /\ diags = "api"
    /\ Len(calls) = 3
    /\ calls[2].api = "AllowBucketKey" /\ calls[2].status = "ok"
    /\ calls[3].api = "DenyBucketKey" /\ calls[3].status = "error"

\* key k has an entry in the key list of bucket b
Listed(b, k) ==
    b \in BucketIds /\ k \in KeyIds /\ buckets[b].exists /\ buckets[b].keys[k].listed

\* the last call of the running or returned handler is a lookup: the
\* directory is still as that lookup saw it
LastIsLookup == calls # <<>> /\ calls[Len(calls)].api = "GetBucketInfo"

LastCall == calls[Len(calls)]

(***************************************************************************)
(* C5. A delete whose lookup finds no bucket, or no entry of the key on    *)
(* the bucket, returns without error, clears the identifier and issues no  *)
(* mutation call; a delete run right after a delete that succeeded finds   *)
(* nothing left to revoke and succeeds again without a mutation call.      *)
(***************************************************************************)
C5_DeleteAbsent ==
    /\ ( /\ op = "delete" /\ LastIsLookup
         /\ ~Listed(bucketID, keyID)
         /\ LastCall.status # "error" )
       => ( /\ pc = "done" /\ diags = "none" /\ d.id = ""
            /\ \A i \in CallIdx : ~IsMutation(calls[i]) )
    /\ ( /\ op = "delete" /\ deletes >= 2 /\ pc = "done"
         /\ \A i \in CallIdx : calls[i].status # "error" )
       => ( /\ diags = "none" /\ d.id = ""
            /\ \A i \in CallIdx : ~IsMutation(calls[i]) )

\* the second of two deletes in a row, of a binding that had an identifier
\* and whose bucket is gone
C5_Witness ==
    /\ op = "delete" /\ deletes = 2 /\ pc = "done" /\ diags = "none"
    /\ Len(calls) = 1 /\ calls[1].status = "notfound"
    /\ d.id = ""

(***************************************************************************)
(* C6 as claimed. A delete that finds the key entry issues exactly one     *)
(* deny call, carrying exactly the flags the directory held, and no allow  *)
(* call.                                                                   *)
(***************************************************************************)
C6_DeleteAlwaysOneDeny ==
    ( /\ op = "delete" /\ pc = "done"
      /\ calls # <<>> /\ calls[1].found )
    => ( /\ Len(calls) = 2
         /\ calls[2].api = "DenyBucketKey"
         /\ calls[2].perm = calls[1].state )

(***************************************************************************)
(* C6 as amended. A delete that finds the key entry issues no allow call   *)
(* and at most one deny call: a deny call is issued iff the entry holds at *)
(* least one true flag, and it carries exactly the flags the directory     *)
(* held; an entry without any true flag is left alone.                     *)
(***************************************************************************)
C6_DeleteDeniesHeldFlags ==
    /\ (pc = "delete_deny" => /\ deny = RemotePerms(bucketID, keyID)
                              /\ \E f \in Flags : deny[f])
    /\ ( /\ op = "delete" /\ pc = "done"
         /\ calls # <<>> /\ calls[1].found )
       => ( /\ \A i \in CallIdx : calls[i].api # "AllowBucketKey"
            /\ Len(calls) <= 2
            /\ (Len(calls) = 2) <=> (\E f \in Flags : calls[1].state[f])
            /\ Len(calls) = 2 =>
                 /\ calls[2].api = "DenyBucketKey"
                 /\ \A f \in Flags : calls[2].perm[f] <=> calls[1].state[f] )

\* read and owner were held and are the flags of the one deny call
C6_Witness ==
    /\ op = "delete" /\ pc = "done" /\ diags = "none"
    /\ Len(calls) = 2
    /\ calls[1].state = [Read |-> TRUE, Write |-> FALSE, Owner |-> TRUE]
    /\ calls[2].api = "DenyBucketKey"
    /\ calls[2].perm = [Read |-> TRUE, Write |-> FALSE, Owner |-> TRUE]
    /\ d.id = "" /\ idBefore # ""

(***************************************************************************)
(* C7. A create or update whose desired permissions are all false returns  *)
(* a validation error without having issued any remote call (no lookup,    *)
(* no allow, no deny), and leaves the identifier as it was.                *)
(***************************************************************************)
C7_AllFalseRejected ==
    ( /\ op \in {"create", "update"}
      /\ \A f \in Flags : ~desired[f] )
    => ( /\ pc = "done" /\ diags = "validation"
         /\ calls = <<>>
         /\ d.id = idBefore )

\* an update of an existing binding to all-false flags was rejected
C7_Witness ==
    /\ op = "update" /\ pc = "done" /\ diags = "validation"
    /\ desired = NewApiBucketKeyPerm
    /\ calls = <<>>
    /\ d.id # "" /\ d.read

(***************************************************************************)
(* C8. Between handlers, a binding with an identifier has at least one of  *)
(* its stored read, write and owner flags true (a binding whose attributes *)
(* are stored: the bare identifier of an import is not yet one).           *)
(***************************************************************************)
C8_PersistedHasFlag ==
    (pc \in {"idle", "done"} /\ d.id # "" /\ d.bucket_id # "")
        => (d.read \/ d.write \/ d.owner)

(***************************************************************************)
(* C9. A lookup of a bucket that does not exist (404) and a lookup that    *)
(* finds no entry of the key both give found = false with the all-false    *)
(* permissions and no error, and a Read then clears the identifier and     *)
(* returns no error; a listed key is found; any other failure of the       *)
(* lookup ends the handler with an error.                                  *)
(***************************************************************************)
C9_LookupNotFound ==
    LastIsLookup =>
        /\ LastCall.status = "notfound" <=>
              (LastCall.status # "error" /\ ~(bucketID \in BucketIds /\ buckets[bucketID].exists))
        /\ (LastCall.status # "error" /\ ~Listed(bucketID, keyID)) =>
              /\ ~LastCall.found
              /\ \A f \in Flags : ~LastCall.state[f]
              /\ LastCall.keyName = ""
              /\ diags = "none"
              /\ LastCall.by = "read" => (pc = "done" /\ d.id = "")
        /\ (LastCall.status = "ok" /\ Listed(bucketID, keyID)) => LastCall.found
        /\ LastCall.status = "error" =>
              (pc = "done" /\ diags = "api" /\ (op = "read" => d.id = idBefore))

\* a Read of a binding with an identifier, on a bucket that lists another
\* key only
C9_Witness ==
    /\ op = "read" /\ pc = "done" /\ diags = "none"
    /\ idBefore # "" /\ d.id = ""
    /\ LastIsLookup /\ LastCall.status = "ok" /\ ~LastCall.found
    /\ \E k \in KeyIds : Listed(bucketID, k)

(***************************************************************************)
(* C10. After a Read that finds the key entry, the stored read, write and  *)
(* owner flags and the stored key name are those of the directory entry at *)
(* that lookup, whatever was stored or planned before, and the identifier  *)
(* is kept.                                                                *)
(***************************************************************************)
C10_ReadStoresDirectory ==
    ( /\ pc = "done" /\ LastIsLookup
      /\ LastCall.by = "read" /\ LastCall.status = "ok"
      /\ Listed(d.bucket_id, d.access_key_id) )
    => ( /\ d.read = buckets[d.bucket_id].keys[d.access_key_id].Permissions.Read
         /\ d.write = buckets[d.bucket_id].keys[d.access_key_id].Permissions.Write
         /\ d.owner = buckets[d.bucket_id].keys[d.access_key_id].Permissions.Owner
         /\ d.key_name = keyNames[d.access_key_id]
         /\ op # "create" => d.id = idBefore )

\* an update without a change of the planned flags, on a directory that
\* has drifted: what is stored now is neither what was planned nor what
\* was stored
C10_Witness ==
    /\ op = "update" /\ pc = "done" /\ diags = "none"
    /\ Len(calls) = 1 /\ calls[1].found
    /\ [Read |-> d.read, Write |-> d.write, Owner |-> d.owner] # desired
    /\ d.read /\ d.key_name = "name2"

(***************************************************************************)
(* The alias binding (garage/resource_bucket_alias.go).                    *)
(***************************************************************************)
\* no bucket-key handler runs and no bucket-key binding exists
KeyAtRest ==
    /\ buckets = [b \in BucketIds |-> NoBucket]
    /\ keyNames = [k \in KeyIds |-> "name1"]
    /\ d = NoResourceData
    /\ pc = "idle"
    /\ op = "none"
    /\ bucketID = ""
    /\ keyID = ""
    /\ desired = NewApiBucketKeyPerm
    /\ current = NewApiBucketKeyPerm
    /\ found = FALSE
    /\ allow = NewApiBucketKeyPerm
    /\ deny = NewApiBucketKeyPerm
    /\ calls = <<>>
    /\ diags = "none"
    /\ deletes = 0
    /\ idBefore = ""

(***************************************************************************)
(* The stored alias binding at the start: nothing (an empty identifier),   *)
(* or a binding of an earlier run, of an import or of an earlier provider  *)
(* version, with any identifier and any alias fields (local_alias and      *)
(* access_key_id both set or both empty, as RequiredWith has it); the      *)
(* computed kind is not yet known.  The directory is in any state.         *)
(***************************************************************************)
InitAlias ==
    /\ KeyAtRest
    /\ BucketAtRest
    /\ AccessKeyAtRest
    /\ RaceAtRest
    /\ aliasDir \in AliasDirs
    /\ a \in { x \in AliasData :
                 /\ x.kind = ""
                 /\ (x.local_alias = EmptyString) <=> (x.access_key_id = EmptyString) }
    /\ aBefore = NoAliasData
    /\ apc = "idle"
    /\ aop = "none"
    /\ parsed = NoParse
    /\ areq = NoAliasRequest
    /\ acalls = <<>>
    /\ adiags = "none"

\* the case of the switch in resourceBucketAliasCreate
AliasCreateCase(g, l, k) ==
    IF g # EmptyString THEN "global"
    ELSE IF l # EmptyString /\ k # EmptyString THEN "local"
    ELSE "default"

(***************************************************************************)
(* The create of an alias binding with planned fields (g, l, k): the plan  *)
(* runs CustomizeDiff, and a plan that passed it is applied by             *)
(* resourceBucketAliasCreate, here up to its AddBucketAlias call; a        *)
(* binding is created when none is stored.  (The                           *)
(* schema's ConflictsWith and RequiredWith are left out: what is rejected  *)
(* here is rejected by CustomizeDiff or by the handler itself.)            *)
(***************************************************************************)
AliasCreate(g, l, k) ==
    /\ UNCHANGED nonAliasVars
    /\ apc = "idle"
    /\ a.id = EmptyString
    /\ aop' = "create"
    /\ acalls' = <<>>
    /\ parsed' = NoParse
    /\ IF AliasCustomizeDiff(g, l, k) # "none"
       THEN /\ a' = NoAliasData
            /\ aBefore' = NewAliasData(g, l, k)
            /\ areq' = NoAliasRequest
            /\ apc' = "done"
            /\ adiags' = AliasCustomizeDiff(g, l, k)
       ELSE /\ a' = NewAliasData(g, l, k)
            /\ aBefore' = NewAliasData(g, l, k)
            /\ IF AliasCreateCase(g, l, k) = "global"
               THEN /\ areq' = AliasRequest(g, EmptyString, EmptyString)
                    /\ apc' = "add" /\ adiags' = "none"
               ELSE IF AliasCreateCase(g, l, k) = "local"
               THEN /\ areq' = AliasRequest(EmptyString, k, l)
                    /\ apc' = "add" /\ adiags' = "none"
               ELSE /\ areq' = NoAliasRequest
                    /\ apc' = "done" /\ adiags' = "validation"
    /\ UNCHANGED aliasDir

\* the alias is where the request names it
AliasPresent(dir, req) ==
    /\ dir.exists
    /\ IF req.globalAlias # EmptyString
       THEN req.globalAlias \in dir.GlobalAliases
       ELSE /\ req.accessKeyId \in AliasKeyIds
            /\ req.localAlias \in dir.LocalAliases[req.accessKeyId]

\* the directory after a successful AddBucketAlias
AddBucketAlias(dir, req) ==
    IF req.globalAlias # EmptyString
    THEN [dir EXCEPT !.GlobalAliases = @ \cup {req.globalAlias}]
    ELSE [dir EXCEPT !.LocalAliases[req.accessKeyId] = @ \cup {req.localAlias}]

\* the directory after a successful RemoveBucketAlias
RemoveBucketAlias(dir, req) ==
    IF req.globalAlias # EmptyString
    THEN [dir EXCEPT !.GlobalAliases = @ \ {req.globalAlias}]
    ELSE [dir EXCEPT !.LocalAliases[req.accessKeyId] = @ \ {req.localAlias}]

\* how an AddBucketAlias call can end: it fails on a bucket that does not
\* exist, and can fail in transport or be refused
AddStatuses(dir, req) ==
    IF dir.exists THEN {"ok", "error"} ELSE {"notfound", "error"}

\* how a RemoveBucketAlias call can end: not found when the bucket or the
\* alias is not there
RemoveStatuses(dir, req) ==
    IF AliasPresent(dir, req) THEN {"ok", "error"} ELSE {"notfound", "error"}

\* resourceBucketAliasCreate after AddBucketAlias returned
AliasAdd ==
    /\ UNCHANGED nonAliasVars
    /\ apc = "add"
    /\ \E status \in AddStatuses(aliasDir, areq) :
         /\ acalls' = Append(acalls, AliasCall("AddBucketAlias", areq, status))
         /\ IF status = "ok"
            THEN /\ aliasDir' = AddBucketAlias(aliasDir, areq)
                 /\ a' = IF areq.globalAlias # EmptyString
                         THEN [a EXCEPT !.id = GlobalAliasId(areq.globalAlias),
                                        !.kind = "global"]
                         ELSE [a EXCEPT !.id = LocalAliasId(areq.accessKeyId, areq.localAlias),
                                        !.kind = "local"]
                 /\ apc' = "read"
                 /\ adiags' = "none"
            ELSE /\ apc' = "done"
                 /\ adiags' = "api"
                 /\ UNCHANGED <<aliasDir, a>>
    /\ UNCHANGED <<aBefore, aop, parsed, areq>>

\* resourceBucketAliasRead is entered on its own, for a binding that has an
\* identifier or whose identifier has been cleared
AliasRead ==
    /\ UNCHANGED nonAliasVars
    /\ apc = "idle"
    /\ a # NoAliasData
    /\ aop' = "read"
    /\ aBefore' = a
    /\ acalls' = <<>>
    /\ parsed' = NoParse
    /\ areq' = NoAliasRequest
    /\ apc' = "read"
    /\ adiags' = "none"
    /\ UNCHANGED <<aliasDir, a>>

\* a Read that takes every global alias for present
AliasFoundAnyGlobal(p, info) ==
    IF p.kind = "global" THEN TRUE
    ELSE IF p.kind = "local"
    THEN /\ p.keyID # EmptyString /\ p.alias # EmptyString
         /\ \E k \in info.Keys :
               keyMatchesAccessKeyID(k, p.keyID) /\ keyHasLocalAlias(k, p.alias)
    ELSE FALSE

\* resourceBucketAliasRead: whether the parsed alias is found in the info
AliasFound(p, info) ==
    IF p.kind = "global" THEN p.alias \in info.GlobalAliases
    ELSE IF p.kind = "local"
    THEN /\ p.keyID # EmptyString /\ p.alias # EmptyString
         /\ \E k \in info.Keys :
               keyMatchesAccessKeyID(k, p.keyID) /\ keyHasLocalAlias(k, p.alias)
    ELSE FALSE

\* a Read that gives a found alias its identifier back
AliasReadSetRestoresId(data, p, info) ==
    IF ~AliasFound(p, info) THEN [data EXCEPT !.id = EmptyString]
    ELSE IF p.kind = "global"
    THEN [data EXCEPT !.id = GlobalAliasId(p.alias), !.kind = "global",
                      !.global_alias = p.alias]
    ELSE [data EXCEPT !.id = LocalAliasId(p.keyID, p.alias), !.kind = "local",
                      !.local_alias = p.alias, !.access_key_id = p.keyID]

\* resourceBucketAliasRead: SetId("") when not found, else the d.Set calls
AliasReadSet(data, p, info) ==
    IF ~AliasFound(p, info) THEN [data EXCEPT !.id = EmptyString]
    ELSE IF p.kind = "global"
    THEN [data EXCEPT !.kind = "global", !.global_alias = p.alias]
    ELSE [data EXCEPT !.kind = "local", !.local_alias = p.alias,
                      !.access_key_id = p.keyID]

\* resourceBucketAliasRead from parseAliasID on, also as the end of Create
AliasReadLookup ==
    /\ UNCHANGED nonAliasVars
    /\ apc = "read"
    /\ parsed' = parseAliasID(a.id, a)
    /\ \E resp \in GetAliasBucketInfo(a.bucket_id) :
         /\ acalls' = Append(acalls, AliasCall("GetBucketInfo", NoAliasRequest, resp.status))
         /\ apc' = "done"
         /\ IF resp.status = "error"
            THEN adiags' = "api" /\ a' = a
            ELSE /\ adiags' = "none"
                 /\ a' = IF resp.status = "notfound"
                         THEN [a EXCEPT !.id = EmptyString]
                         ELSE AliasReadSet(a, parsed', resp)
    /\ UNCHANGED <<aliasDir, aBefore, aop, areq>>

\* resourceBucketAliasDelete up to its RemoveBucketAlias call, for a binding
\* that has an identifier or whose identifier has been cleared
AliasDelete ==
    /\ UNCHANGED nonAliasVars
    /\ apc = "idle"
    /\ a # NoAliasData
    /\ aop' = "delete"
    /\ aBefore' = a
    /\ acalls' = <<>>
    /\ adiags' = "none"
    /\ parsed' = parseAliasID(a.id, a)
    /\ IF parsed'.kind = "global"
       THEN /\ areq' = AliasRequest(parsed'.alias, EmptyString, EmptyString)
            /\ apc' = "remove"
       ELSE IF parsed'.kind = "local"
       THEN /\ areq' = AliasRequest(EmptyString, parsed'.keyID, parsed'.alias)
            /\ apc' = "remove"
       ELSE /\ areq' = NoAliasRequest
            /\ apc' = "done"
    /\ UNCHANGED <<aliasDir, a>>

\* a delete that surfaces the 404 of the remove call
AliasDeleteDiags404IsError(status) == IF status = "ok" THEN "none" ELSE "api"

\* resourceBucketAliasDelete: the diagnostics for a status of the remove call
AliasDeleteDiags(status) == IF status \in {"ok", "notfound"} THEN "none" ELSE "api"

\* a delete that clears the identifier when the alias is gone
AliasAfterRemoveClearsId(data, status) ==
    IF status \in {"ok", "notfound"} THEN [data EXCEPT !.id = EmptyString] ELSE data

\* resourceBucketAliasDelete: the resource data after the remove call; the
\* handler has no SetId and no d.Set
AliasAfterRemove(data, status) == data

\* resourceBucketAliasDelete after RemoveBucketAlias returned
AliasRemove ==
    /\ UNCHANGED nonAliasVars
    /\ apc = "remove"
    /\ \E status \in RemoveStatuses(aliasDir, areq) :
         /\ acalls' = Append(acalls, AliasCall("RemoveBucketAlias", areq, status))
         /\ aliasDir' = IF status = "ok" THEN RemoveBucketAlias(aliasDir, areq) ELSE aliasDir
         /\ adiags' = AliasDeleteDiags(status)
         /\ a' = AliasAfterRemove(a, status)
    /\ apc' = "done"
    /\ UNCHANGED <<aBefore, aop, parsed, areq>>

\* the alias handler has returned to the orchestration layer
AliasReturn ==
    /\ UNCHANGED nonAliasVars
    /\ apc = "done"
    /\ apc' = "idle"
    /\ aop' = "none"
    /\ aBefore' = NoAliasData
    /\ parsed' = NoParse
    /\ areq' = NoAliasRequest
    /\ acalls' = <<>>
    /\ adiags' = "none"
    /\ UNCHANGED <<aliasDir, a>>

\* another writer of the directory, between two handlers: the bucket is
\* created or deleted, or one alias is added or removed
AliasExternal ==
    /\ UNCHANGED nonAliasVars
    /\ apc = "idle"
    /\ \/ aliasDir' = IF aliasDir.exists THEN NoAliasDir
                      ELSE [NoAliasDir EXCEPT !.exists = TRUE]
       \/ /\ aliasDir.exists
          /\ \E x \in AliasNames :
               aliasDir' = [aliasDir EXCEPT !.GlobalAliases =
                               IF x \in @ THEN @ \ {x} ELSE @ \cup {x}]
       \/ /\ aliasDir.exists
          /\ \E k \in AliasKeyIds, x \in AliasNames :
               aliasDir' = [aliasDir EXCEPT !.LocalAliases[k] =
                               IF x \in @ THEN @ \ {x} ELSE @ \cup {x}]
    /\ UNCHANGED <<a, aBefore, apc, aop, parsed, areq, acalls, adiags>>

NextAlias ==
    \/ \E g \in AliasNames \cup {EmptyString}, l \in AliasNames \cup {EmptyString},
          k \in AliasKeyIds \cup {EmptyString} : AliasCreate(g, l, k)
    \/ AliasAdd
    \/ AliasRead
    \/ AliasReadLookup
    \/ AliasDelete
    \/ AliasRemove
    \/ AliasReturn
    \/ AliasExternal

SpecAlias == InitAlias /\ [][NextAlias]_vars

(***************************************************************************)
(* Vocabulary of the alias properties.                                     *)
(***************************************************************************)
\* the last remote call of the running or returned alias handler
AliasLastCall == acalls[Len(acalls)]

AddAliasCalls == { i \in 1..Len(acalls) : acalls[i].api = "AddBucketAlias" }

\* the identifier the handler handed to parseAliasID: the stored one, or in
\* Create the one it has just set
ParsedId ==
    IF aop = "create"
    THEN IF areq.globalAlias # EmptyString
         THEN GlobalAliasId(areq.globalAlias)
         ELSE LocalAliasId(areq.accessKeyId, areq.localAlias)
    ELSE aBefore.id

\* the handler has called parseAliasID
HasParsed == parsed.kind # ""

\* no alias field is configured
NoAliasFields(data) ==
    /\ data.global_alias = EmptyString
    /\ data.local_alias = EmptyString
    /\ data.access_key_id = EmptyString

(***************************************************************************)
(* C11. An alias create whose planned fields do not have exactly one of    *)
(* (global_alias non-empty) and (local_alias and access_key_id both        *)
(* non-empty) ends with a validation error, without an add-alias call and  *)
(* without an identifier: so with neither provided and with both provided. *)
(* A create with only the global alias, or only the local pair, is not     *)
(* rejected.                                                               *)
(***************************************************************************)
C11_AliasCreateValidates ==
    aop = "create" =>
        LET hasGlobal == aBefore.global_alias # EmptyString
            hasPair == aBefore.local_alias # EmptyString /\ aBefore.access_key_id # EmptyString
        IN /\ (hasGlobal <=> hasPair) =>
                /\ apc = "done" /\ adiags = "validation"
                /\ acalls = <<>>
                /\ a.id = EmptyString
           /\ adiags = "validation" => AddAliasCalls = {}
           /\ ( \/ hasGlobal /\ aBefore.local_alias = EmptyString
                             /\ aBefore.access_key_id = EmptyString
                \/ ~hasGlobal /\ hasPair )
              => adiags # "validation"

\* both modes were provided, and the create was rejected
C11_Witness ==
    /\ aop = "create" /\ apc = "done" /\ adiags = "validation"
    /\ aBefore.global_alias # EmptyString
    /\ aBefore.local_alias # EmptyString
    /\ aBefore.access_key_id # EmptyString
    /\ acalls = <<>>

(***************************************************************************)
(* C12. An alias create that returned without error has issued one         *)
(* add-alias call, with only the global field for a global alias and with  *)
(* key id and local alias for a local one, and, the directory holding the  *)
(* alias, ends with the identifier global:<alias> or local:<keyId>:<alias>.*)
(***************************************************************************)
C12_CreateBinds ==
    ( /\ aop = "create" /\ apc = "done" /\ adiags = "none"
      /\ AliasPresent(aliasDir, areq) )
    => /\ Cardinality(AddAliasCalls) = 1
       /\ acalls[1].api = "AddBucketAlias"
       /\ IF aBefore.global_alias # EmptyString
          THEN /\ acalls[1].req = AliasRequest(aBefore.global_alias, EmptyString, EmptyString)
               /\ a.id = GlobalAliasId(aBefore.global_alias)
          ELSE /\ acalls[1].req = AliasRequest(EmptyString, aBefore.access_key_id,
                                               aBefore.local_alias)
               /\ a.id = LocalAliasId(aBefore.access_key_id, aBefore.local_alias)

(***************************************************************************)
(* C13. Whatever the configured alias fields, parseAliasID of the          *)
(* identifier global:<alias> gives (global, alias, "") and of the          *)
(* identifier local:<key>:<alias> gives (local, alias, key), for alias and *)
(* key without a colon.                                                    *)
(***************************************************************************)
C13_IdRoundTrip ==
    HasParsed =>
        /\ \A x \in AliasNames \cup {<<"malformed">>} :
             ParsedId = GlobalAliasId(x) =>
                parsed = [kind |-> "global", alias |-> x, keyID |-> EmptyString]
        /\ \A k \in AliasKeyIds, x \in AliasNames :
             ParsedId = LocalAliasId(k, x) =>
                parsed = [kind |-> "local", alias |-> x, keyID |-> k]

\* a local identifier was parsed while a global alias was configured, and
\* alias and key are those of the identifier, not the configured ones
C13_Witness ==
    /\ HasParsed /\ aop = "delete"
    /\ \E k \in AliasKeyIds, x \in AliasNames :
         /\ ParsedId = LocalAliasId(k, x)
         /\ parsed = [kind |-> "local", alias |-> x, keyID |-> k]
         /\ aBefore.global_alias # EmptyString
         /\ aBefore.local_alias # EmptyString /\ aBefore.local_alias # x
         /\ aBefore.access_key_id # k

(***************************************************************************)
(* C14. A Read of a binding global:<alias> whose lookup does not fail      *)
(* returns no error; it keeps the identifier, with kind global, iff the    *)
(* bucket exists and its global aliases contain the alias, and clears the  *)
(* identifier otherwise.                                                   *)
(***************************************************************************)
C14_ReadGlobal ==
    ( /\ aop = "read" /\ apc = "done"
      /\ HasPrefix(aBefore.id, "global")
      /\ AliasLastCall.status # "error" )
    => /\ adiags = "none"
       /\ IF aliasDir.exists /\ TrimPrefix(aBefore.id) \in aliasDir.GlobalAliases
          THEN /\ a.id = aBefore.id /\ a.kind = "global"
               /\ AliasLastCall.status = "ok"
          ELSE a.id = EmptyString

\* the alias is in the list and the binding stays bound, while another
\* global alias is configured
C14_Witness ==
    /\ aop = "read" /\ apc = "done" /\ adiags = "none"
    /\ HasPrefix(aBefore.id, "global")
    /\ a.id = aBefore.id /\ a.kind = "global" /\ aBefore.kind = ""
    /\ aBefore.global_alias # TrimPrefix(aBefore.id)
    /\ Cardinality(aliasDir.GlobalAliases) = 2

(***************************************************************************)
(* C15. A Read of a binding local:<keyId>:<alias> whose lookup succeeds    *)
(* keeps the identifier, with kind local, iff the bucket's key list has an *)
(* entry of keyId whose local aliases contain the alias, and clears it     *)
(* otherwise.                                                              *)
(***************************************************************************)
C15_ReadLocal ==
    \A k \in AliasKeyIds, x \in AliasNames :
        ( /\ aop = "read" /\ apc = "done"
          /\ aBefore.id = LocalAliasId(k, x)
          /\ AliasLastCall.status = "ok" )
        => IF x \in aliasDir.LocalAliases[k]
           THEN a.id = aBefore.id /\ a.kind = "local"
           ELSE a.id = EmptyString

C18_MalformedReadClears ==
    ( /\ aop = "read" /\ apc = "done"
      /\ aBefore.id = <<"local", "malformed">>
      /\ AliasLastCall.status # "error" )
    => a.id = EmptyString /\ adiags = "none"

(***************************************************************************)
(* C18 as amended. A Read of a binding with the malformed identifier       *)
(* local:<x>, whose lookup does not fail, returns no error and reads the   *)
(* binding through the configured fields: with no global alias and no      *)
(* local alias or no key id configured the identifier is cleared; with a   *)
(* global alias configured the identifier is kept iff the bucket exists    *)
(* and its global aliases contain the configured alias, and cleared        *)
(* otherwise.                                                              *)
(***************************************************************************)
C18_MalformedReadFallsBack ==
    ( /\ aop = "read" /\ apc = "done"
      /\ aBefore.id = <<"local", "malformed">>
      /\ AliasLastCall.status # "error" )
    => /\ adiags = "none"
       /\ a.id \in {EmptyString, aBefore.id}
       /\ ( /\ aBefore.global_alias = EmptyString
            /\ (aBefore.local_alias = EmptyString \/ aBefore.access_key_id = EmptyString) )
          => a.id = EmptyString
       /\ aBefore.global_alias # EmptyString =>
            ( a.id = aBefore.id <=>
                (aliasDir.exists /\ aBefore.global_alias \in aliasDir.GlobalAliases) )

\* no alias field is configured, the lookup succeeded, the identifier is
\* cleared
C18_Witness ==
    /\ aop = "read" /\ apc = "done" /\ adiags = "none"
    /\ aBefore.id = <<"local", "malformed">>
    /\ NoAliasFields(aBefore)
    /\ AliasLastCall.status = "ok"
    /\ a.id = EmptyString

(***************************************************************************)
(* C19. A delete of a binding whose identifier is neither global:<alias>   *)
(* nor local:<key>:<alias> (no known prefix, or a malformed local          *)
(* identifier), with no alias field configured, issues no remote call,     *)
(* returns no error and clears the identifier.                             *)
(***************************************************************************)
C19_UnresolvedDeleteNoCall ==
    ( /\ aop = "delete" /\ apc = "done"
      /\ aBefore.id \in LegacyAliasIds
      /\ NoAliasFields(aBefore) )
    => /\ acalls = <<>>
       /\ adiags = "none"
       /\ a.id = EmptyString

(***************************************************************************)
(* C20. For an identifier that is neither global:<alias> nor               *)
(* local:<key>:<alias>, parseAliasID gives the global mode with the        *)
(* configured global alias when that is non-empty, and else the local mode *)
(* with the configured local alias and key id; for an identifier of one of *)
(* the two forms, kind, alias and key are those of the identifier,         *)
(* whatever is configured.                                                 *)
(***************************************************************************)
C20_ParseFallback ==
    HasParsed =>
        IF HasPrefix(ParsedId, "global")
        THEN parsed.kind = "global" /\ GlobalAliasId(parsed.alias) = ParsedId
        ELSE IF HasPrefix(ParsedId, "local") /\ Len(ParsedId) >= 3
        THEN parsed.kind = "local" /\ LocalAliasId(parsed.keyID, parsed.alias) = ParsedId
        ELSE IF aBefore.global_alias # EmptyString
        THEN parsed = [kind |-> "global", alias |-> aBefore.global_alias,
                       keyID |-> EmptyString]
        ELSE parsed = [kind |-> "local", alias |-> aBefore.local_alias,
                       keyID |-> aBefore.access_key_id]

\* an identifier without a known prefix, no global alias configured: the
\* local alias and key id configured are the result
C20_Witness ==
    /\ HasParsed /\ aop = "read"
    /\ ParsedId = <<"unexpected">>
    /\ aBefore.global_alias = EmptyString
    /\ aBefore.local_alias # EmptyString
    /\ parsed = [kind |-> "local", alias |-> aBefore.local_alias,
                 keyID |-> aBefore.access_key_id]

(***************************************************************************)
(* C21. A Read or Delete of a binding looks up the bucket named in the     *)
(* binding's identifier <bucketId>:<accessKeyId> and searches its key list *)
(* for the key named there, also when the identifier is all it is given.   *)
(***************************************************************************)
C21_LookupFromIdentifier ==
    ( /\ op \in {"read", "delete"}
      /\ calls # <<>>
      /\ calls[1].api = "GetBucketInfo" )
    => \E b \in BucketIds, k \in KeyIds :
          /\ idBefore = BucketKeyId(b, k)
          /\ calls[1].bucket = b
          /\ keyID = k

(***************************************************************************)
(* C22. The provider's resource map contains the four resource types       *)
(* garage_bucket, garage_bucket_alias, garage_bucket_key and garage_key:   *)
(* a CRUD handler of the bucket-key binding that runs is one the provider  *)
(* has in its map.                                                         *)
(***************************************************************************)
C22_ProviderHasAllResources ==
    /\ {"garage_bucket", "garage_bucket_alias", "garage_key"} \subseteq ResourcesMap
    /\ op \in {"create", "read", "update", "delete"} => "garage_bucket_key" \in ResourcesMap

(***************************************************************************)
(* C27. Tombstoned is terminal for an alias binding: a step of a Read or   *)
(* of a Delete that finds the identifier cleared leaves it cleared,        *)
(* whatever the directory contains.                                        *)
(***************************************************************************)
C27_TombstonedTerminal ==
    [][ (a.id = EmptyString /\ aop' \in {"read", "delete"}) => a'.id = EmptyString ]_vars

\* a Read of a binding whose identifier is cleared has found the alias the
\* configured field names in the directory, and the identifier is still
\* cleared
C27_Witness ==
    /\ aop = "read" /\ apc = "done" /\ adiags = "none"
    /\ aBefore.id = EmptyString /\ aBefore.kind = ""
    /\ a.id = EmptyString
    /\ a.kind = "global" /\ a.global_alias \in aliasDir.GlobalAliases

(***************************************************************************)
(* The bucket resource (garage/resource_bucket.go).  Every remote call of  *)
(* a handler is one step.  (The create-time local_alias block is left out: *)
(* it is passed to CreateBucket and kept in the resource data, and no      *)
(* handler looks at it again.)                                             *)
(***************************************************************************)
\* no bucket resource is stored; the directory is in any state
InitBucket ==
    /\ KeyAtRest
    /\ AliasAtRest
    /\ AccessKeyAtRest
    /\ RaceAtRest
    /\ bucketDir \in BucketDirs
    /\ bd = NoBucketData
    /\ bBefore = NoBucketData
    /\ bpc = "idle"
    /\ bop = "none"
    /\ bcalls = <<>>
    /\ bdiags = "none"

\* the create of a bucket with planned inputs: the plan runs CustomizeDiff,
\* and a plan that passed it is applied by resourceBucketCreate, here up to
\* its CreateBucket call
BucketCreate(g, web, idx, q) ==
    /\ UNCHANGED nonBucketVars
    /\ bpc = "idle"
    /\ bd.id = ""
    /\ bop' = "create"
    /\ bcalls' = <<>>
    /\ bBefore' = NewBucketData(g, web, idx, q)
    /\ IF BucketCustomizeDiff(web, idx) # "none"
       THEN /\ bd' = NoBucketData
            /\ bpc' = "done"
            /\ bdiags' = BucketCustomizeDiff(web, idx)
       ELSE /\ bd' = NewBucketData(g, web, idx, q)
            /\ bpc' = "create"
            /\ bdiags' = "none"
    /\ UNCHANGED bucketDir

\* how a CreateBucket call can end: it is refused when the alias is taken,
\* here when the directory's one bucket is there already
CreateBucketStatuses(dir) == IF dir.exists THEN {"error"} ELSE {"ok", "error"}

\* how a call on an existing bucket can end (AddBucketAlias, UpdateBucket,
\* DeleteBucket)
BucketCallStatuses(dir) == IF dir.exists THEN {"ok", "error"} ELSE {"notfound", "error"}

\* how a RemoveBucketAlias call can end: not found when the bucket or the
\* alias is not there
RemoveAliasStatuses(dir, alias) ==
    IF dir.exists /\ alias \in dir.GlobalAliases THEN {"ok", "error"}
    ELSE {"notfound", "error"}

\* resourceBucketCreate after CreateBucket returned: SetId, then the Read
BucketCreateCall ==
    /\ UNCHANGED nonBucketVars
    /\ bpc = "create"
    /\ \E status \in CreateBucketStatuses(bucketDir) :
         /\ bcalls' = Append(bcalls, BucketCall("CreateBucket", bd.global_alias, status))
         /\ IF status = "ok"
            THEN /\ bucketDir' = [exists |-> TRUE,
                                  GlobalAliases |-> {bd.global_alias} \ {""},
                                  WebsiteAccess |-> FALSE, Quotas |-> FALSE]
                 /\ bd' = [bd EXCEPT !.id = NewBucketId]
                 /\ bpc' = "read"
                 /\ bdiags' = "none"
            ELSE /\ bpc' = "done"
                 /\ bdiags' = "api"
                 /\ UNCHANGED <<bucketDir, bd>>
    /\ UNCHANGED <<bBefore, bop>>

\* resourceBucketRead is entered on its own, for a bucket that has an
\* identifier
BucketRead ==
    /\ UNCHANGED nonBucketVars
    /\ bpc = "idle"
    /\ bd.id # ""
    /\ bop' = "read"
    /\ bBefore' = bd
    /\ bcalls' = <<>>
    /\ bpc' = "read"
    /\ bdiags' = "none"
    /\ UNCHANGED <<bucketDir, bd>>

\* a Read that drops the identifier on every failed lookup
BucketReadResultClearsOnError(data, resp) ==
    IF resp.status = "notfound" THEN [diags |-> "none", data |-> [data EXCEPT !.id = ""]]
    ELSE IF resp.status = "error" THEN [diags |-> "api", data |-> [data EXCEPT !.id = ""]]
    ELSE [diags |-> "none", data |-> flattenBucketInfo(data, resp.info)]

\* resourceBucketRead: the diagnostics and the resource data for a response
BucketReadResult(data, resp) ==
    IF resp.status = "notfound" THEN [diags |-> "none", data |-> [data EXCEPT !.id = ""]]
    ELSE IF resp.status = "error" THEN [diags |-> "api", data |-> data]
    ELSE [diags |-> "none", data |-> flattenBucketInfo(data, resp.info)]

\* a Read that puts the configured global alias back on a bucket that has
\* lost it
BucketAfterReadRepairs(dir, data) ==
    IF dir.exists /\ data.global_alias # ""
    THEN [dir EXCEPT !.GlobalAliases = @ \cup {data.global_alias}]
    ELSE dir

\* resourceBucketRead: the directory after the Read, which issues
\* GetBucketInfo and no other call
BucketAfterRead(dir, data) == dir

\* resourceBucketRead, also as the end of Create and Update
BucketReadLookup ==
    /\ UNCHANGED nonBucketVars
    /\ bpc = "read"
    /\ \E resp \in GetBucketInfoById(bd.id) :
         /\ bcalls' = Append(bcalls, BucketCall("GetBucketInfo", "", resp.status))
         /\ bdiags' = BucketReadResult(bd, resp).diags
         /\ bd' = BucketReadResult(bd, resp).data
    /\ bucketDir' = BucketAfterRead(bucketDir, bd)
    /\ bpc' = "done"
    /\ UNCHANGED <<bBefore, bop>>

\* the update of a bucket to planned inputs: the plan runs CustomizeDiff,
\* and a plan that passed it is applied by resourceBucketUpdate.  bBefore is
\* the prior state, bd gives the planned inputs.
BucketUpdate(g, web, idx, q) ==
    /\ UNCHANGED nonBucketVars
    /\ bpc = "idle"
    /\ bd.id # ""
    /\ bop' = "update"
    /\ bBefore' = bd
    /\ bcalls' = <<>>
    /\ IF BucketCustomizeDiff(web, idx) # "none"
       THEN /\ bd' = bd
            /\ bpc' = "done"
            /\ bdiags' = BucketCustomizeDiff(web, idx)
       ELSE /\ bd' = [bd EXCEPT !.global_alias = g, !.website_access_enabled = web,
                                !.website_config_index_document = idx, !.quotas = q]
            /\ bpc' = "alias_1"
            /\ bdiags' = "none"
    /\ UNCHANGED bucketDir

\* whether the alias call of this kind is issued: add when the alias has
\* changed to a non-empty one, remove when it has changed from a non-empty one
BucketAliasCallIssued(kind, prior, data) ==
    /\ BucketAliasChanged(prior, data)
    /\ IF kind = "add" THEN data.global_alias # ""
       ELSE prior.global_alias # "" /\ prior.global_alias # data.global_alias

\* where resourceBucketUpdate goes on after its alias calls: the build of
\* the website access and quotas, then the refresh or UpdateBucket
BucketAfterAlias(prior, data) ==
    IF buildWebsiteAccess(data).diags # "none" THEN "done"
    ELSE IF buildQuotas(data).diags # "none" THEN "done"
    ELSE IF BucketNothingToUpdate(prior, data) THEN "read"
    ELSE "update"

\* step i of the alias change of resourceBucketUpdate, which goes on to
\* `next` unless the call failed
BucketAliasStep(i, next) ==
    LET kind == BucketAliasOrder[i]
        alias == IF kind = "add" THEN bd.global_alias ELSE bBefore.global_alias
    IN IF BucketAliasCallIssued(kind, bBefore, bd)
       THEN \E status \in ( IF kind = "add" THEN BucketCallStatuses(bucketDir)
                            ELSE RemoveAliasStatuses(bucketDir, alias) ) :
              /\ bcalls' = Append(bcalls,
                     BucketCall(IF kind = "add" THEN "AddBucketAlias"
                                ELSE "RemoveBucketAlias", alias, status))
              /\ bucketDir' =
                     IF status # "ok" THEN bucketDir
                     ELSE IF kind = "add"
                     THEN [bucketDir EXCEPT !.GlobalAliases = @ \cup {alias}]
                     ELSE [bucketDir EXCEPT !.GlobalAliases = @ \ {alias}]
              /\ bpc' = IF status # "ok" THEN "done" ELSE next
              /\ bdiags' = IF status # "ok" THEN "api"
                           ELSE IF next = "done" THEN "validation" ELSE "none"
       ELSE /\ bpc' = next
            /\ bdiags' = IF next = "done" THEN "validation" ELSE "none"
            /\ UNCHANGED <<bucketDir, bcalls>>

BucketAliasFirst ==
    /\ UNCHANGED nonBucketVars
    /\ bpc = "alias_1"
    /\ BucketAliasStep(1, "alias_2")
    /\ UNCHANGED <<bd, bBefore, bop>>

BucketAliasSecond ==
    /\ UNCHANGED nonBucketVars
    /\ bpc = "alias_2"
    /\ BucketAliasStep(2, BucketAfterAlias(bBefore, bd))
    /\ UNCHANGED <<bd, bBefore, bop>>

\* resourceBucketUpdate after UpdateBucket returned
BucketUpdateCall ==
    /\ UNCHANGED nonBucketVars
    /\ bpc = "update"
    /\ \E status \in BucketCallStatuses(bucketDir) :
         /\ bcalls' = Append(bcalls, BucketCall("UpdateBucket", "", status))
         /\ bucketDir' =
                IF status # "ok" THEN bucketDir
                ELSE [bucketDir EXCEPT
                        !.WebsiteAccess = IF buildWebsiteAccess(bd).nil THEN @ ELSE TRUE,
                        !.Quotas = IF buildQuotas(bd).nil THEN @ ELSE TRUE]
         /\ bpc' = IF status # "ok" THEN "done" ELSE "read"
         /\ bdiags' = IF status # "ok" THEN "api" ELSE "none"
    /\ UNCHANGED <<bd, bBefore, bop>>

\* resourceBucketDelete up to its DeleteBucket call
BucketDelete ==
    /\ UNCHANGED nonBucketVars
    /\ bpc = "idle"
    /\ bd.id # ""
    /\ bop' = "delete"
    /\ bBefore' = bd
    /\ bcalls' = <<>>
    /\ bpc' = "delete"
    /\ bdiags' = "none"
    /\ UNCHANGED <<bucketDir, bd>>

\* resourceBucketDelete and resourceKeyDelete: the diagnostics for a status
\* of the delete call
DeleteDiags(status) == IF status \in {"ok", "notfound"} THEN "none" ELSE "api"

\* resourceBucketDelete after DeleteBucket returned
BucketDeleteCall ==
    /\ UNCHANGED nonBucketVars
    /\ bpc = "delete"
    /\ \E status \in BucketCallStatuses(bucketDir) :
         /\ bcalls' = Append(bcalls, BucketCall("DeleteBucket", "", status))
         /\ bucketDir' = IF status = "ok" THEN NoBucketDir ELSE bucketDir
         /\ bdiags' = DeleteDiags(status)
    /\ bpc' = "done"
    /\ UNCHANGED <<bd, bBefore, bop>>

\* the bucket handler has returned to the orchestration layer
BucketReturn ==
    /\ UNCHANGED nonBucketVars
    /\ bpc = "done"
    /\ bpc' = "idle"
    /\ bop' = "none"
    /\ bBefore' = NoBucketData
    /\ bcalls' = <<>>
    /\ bdiags' = "none"
    /\ UNCHANGED <<bucketDir, bd>>

\* another writer of the directory, between two handlers: the bucket is
\* created or deleted, a global alias is added or removed, website access
\* or quotas are switched
BucketExternal ==
    /\ UNCHANGED nonBucketVars
    /\ bpc = "idle"
    /\ \/ bucketDir' = IF bucketDir.exists THEN NoBucketDir
                       ELSE [NoBucketDir EXCEPT !.exists = TRUE]
       \/ /\ bucketDir.exists
          /\ \E x \in GlobalAliasNames :
               bucketDir' = [bucketDir EXCEPT !.GlobalAliases =
                                IF x \in @ THEN @ \ {x} ELSE @ \cup {x}]
       \/ /\ bucketDir.exists
          /\ bucketDir' = [bucketDir EXCEPT !.WebsiteAccess = ~@]
       \/ /\ bucketDir.exists
          /\ bucketDir' = [bucketDir EXCEPT !.Quotas = ~@]
    /\ UNCHANGED <<bd, bBefore, bpc, bop, bcalls, bdiags>>

NextBucket ==
    \/ \E g \in GlobalAliasNames \cup {""}, web \in BOOLEAN,
          idx \in {"", IndexDocument}, q \in BOOLEAN : BucketCreate(g, web, idx, q)
    \/ BucketCreateCall
    \/ BucketRead
    \/ BucketReadLookup
    \/ \E g \in GlobalAliasNames \cup {""}, web \in BOOLEAN,
          idx \in {"", IndexDocument}, q \in BOOLEAN : BucketUpdate(g, web, idx, q)
    \/ BucketAliasFirst
    \/ BucketAliasSecond
    \/ BucketUpdateCall
    \/ BucketDelete
    \/ BucketDeleteCall
    \/ BucketReturn
    \/ BucketExternal

SpecBucket == InitBucket /\ [][NextBucket]_vars

(***************************************************************************)
(* The access key resource garage_key.  Every remote call of a handler is  *)
(* one step.                                                               *)
(***************************************************************************)
\* resourceKeyCreate up to its CreateKey call
AccessKeyCreate(name, exp, perm) ==
    /\ UNCHANGED nonAccessKeyVars
    /\ akpc = "idle"
    /\ akd.id = ""
    /\ akop' = "create"
    /\ akcalls' = <<>>
    /\ akBefore' = NewAccessKeyData(name, exp, perm)
    /\ akd' = NewAccessKeyData(name, exp, perm)
    /\ akdiags' = buildUpdateKeyRequestBody(akd')
    /\ akpc' = IF akdiags' # "none" THEN "done" ELSE "create"
    /\ UNCHANGED akDir

\* how a CreateKey call can end
CreateKeyStatuses(dir) == IF dir.exists THEN {"error"} ELSE {"ok", "error"}

\* how a call on an existing key can end (UpdateKey, DeleteKey)
AccessKeyCallStatuses(dir) == IF dir.exists THEN {"ok", "error"} ELSE {"notfound", "error"}

\* resourceKeyCreate after CreateKey returned: SetId and the d.Set calls on
\* the response; there is no Read at the end
AccessKeyCreateCall ==
    /\ UNCHANGED nonAccessKeyVars
    /\ akpc = "create"
    /\ \E status \in CreateKeyStatuses(akDir) :
         /\ akcalls' = Append(akcalls, AccessKeyCall("CreateKey", status))
         /\ IF status = "ok"
            THEN /\ akDir' = AccessKeyWritten(NoAccessKeyDir, akd)
                 /\ akd' = flattenKeyInfo([akd EXCEPT !.id = NewAccessKeyId], akDir')
                 /\ akdiags' = "none"
            ELSE /\ akdiags' = "api"
                 /\ UNCHANGED <<akDir, akd>>
    /\ akpc' = "done"
    /\ UNCHANGED <<akBefore, akop>>

\* resourceKeyRead is entered on its own, for a key that has an identifier
AccessKeyRead ==
    /\ UNCHANGED nonAccessKeyVars
    /\ akpc = "idle"
    /\ akd.id # ""
    /\ akop' = "read"
    /\ akBefore' = akd
    /\ akcalls' = <<>>
    /\ akpc' = "read"
    /\ akdiags' = "none"
    /\ UNCHANGED <<akDir, akd>>

\* resourceKeyRead: the diagnostics and the resource data for a response
AccessKeyReadResult(data, resp) ==
    IF resp.status = "notfound" THEN [diags |-> "none", data |-> [data EXCEPT !.id = ""]]
    ELSE IF resp.status = "error" THEN [diags |-> "api", data |-> data]
    ELSE [diags |-> "none", data |-> flattenKeyInfo(data, resp.info)]

\* resourceKeyRead, also as the end of an Update without change
AccessKeyReadLookup ==
    /\ UNCHANGED nonAccessKeyVars
    /\ akpc = "read"
    /\ \E resp \in GetKeyInfo(akd.id) :
         /\ akcalls' = Append(akcalls, AccessKeyCall("GetKeyInfo", resp.status))
         /\ akdiags' = AccessKeyReadResult(akd, resp).diags
         /\ akd' = AccessKeyReadResult(akd, resp).data
    /\ akpc' = "done"
    /\ UNCHANGED <<akDir, akBefore, akop>>

\* resourceKeyUpdate up to its UpdateKey call or its Read.  akBefore is the
\* prior state, akd gives the planned inputs.
AccessKeyUpdate(name, exp, perm) ==
    /\ UNCHANGED nonAccessKeyVars
    /\ akpc = "idle"
    /\ akd.id # ""
    /\ akop' = "update"
    /\ akBefore' = akd
    /\ akcalls' = <<>>
    /\ akd' = [akd EXCEPT !.name = name, !.expiration = exp, !.permissions = perm]
    /\ IF ~AccessKeyHasChange(akd, akd')
       THEN akpc' = "read" /\ akdiags' = "none"
       ELSE /\ akdiags' = buildUpdateKeyRequestBody(akd')
            /\ akpc' = IF akdiags' # "none" THEN "done" ELSE "update"
    /\ UNCHANGED akDir

\* resourceKeyUpdate after UpdateKey returned: the d.Set calls on the
\* response; there is no Read at the end
AccessKeyUpdateCall ==
    /\ UNCHANGED nonAccessKeyVars
    /\ akpc = "update"
    /\ \E status \in AccessKeyCallStatuses(akDir) :
         /\ akcalls' = Append(akcalls, AccessKeyCall("UpdateKey", status))
         /\ IF status = "ok"
            THEN /\ akDir' = AccessKeyWritten(akDir, akd)
                 /\ akd' = flattenKeyInfo(akd, akDir')
                 /\ akdiags' = "none"
            ELSE /\ akdiags' = "api"
                 /\ UNCHANGED <<akDir, akd>>
    /\ akpc' = "done"
    /\ UNCHANGED <<akBefore, akop>>

\* resourceKeyDelete up to its DeleteKey call
AccessKeyDelete ==
    /\ UNCHANGED nonAccessKeyVars
    /\ akpc = "idle"
    /\ akd.id # ""
    /\ akop' = "delete"
    /\ akBefore' = akd
    /\ akcalls' = <<>>
    /\ akpc' = "delete"
    /\ akdiags' = "none"
    /\ UNCHANGED <<akDir, akd>>

\* resourceKeyDelete after DeleteKey returned
AccessKeyDeleteCall ==
    /\ UNCHANGED nonAccessKeyVars
    /\ akpc = "delete"
    /\ \E status \in AccessKeyCallStatuses(akDir) :
         /\ akcalls' = Append(akcalls, AccessKeyCall("DeleteKey", status))
         /\ akDir' = IF status = "ok" THEN NoAccessKeyDir ELSE akDir
         /\ akdiags' = DeleteDiags(status)
    /\ akpc' = "done"
    /\ UNCHANGED <<akd, akBefore, akop>>

\* the access key handler has returned to the orchestration layer
AccessKeyReturn ==
    /\ UNCHANGED nonAccessKeyVars
    /\ akpc = "done"
    /\ akpc' = "idle"
    /\ akop' = "none"
    /\ akBefore' = NoAccessKeyData
    /\ akcalls' = <<>>
    /\ akdiags' = "none"
    /\ UNCHANGED <<akDir, akd>>

\* another writer of the directory, between two handlers: the key is
\* created or deleted, renamed, or its permissions are changed
AccessKeyExternal ==
    /\ UNCHANGED nonAccessKeyVars
    /\ akpc = "idle"
    /\ \/ akDir' = IF akDir.exists THEN NoAccessKeyDir
                   ELSE [NoAccessKeyDir EXCEPT !.exists = TRUE]
       \/ /\ akDir.exists
          /\ \E n \in AccessKeyNames : n # akDir.name /\ akDir' = [akDir EXCEPT !.name = n]
       \/ /\ akDir.exists
          /\ \E x \in KeyPermissions :
               x # akDir.permissions /\ akDir' = [akDir EXCEPT !.permissions = x]
    /\ UNCHANGED <<akd, akBefore, akpc, akop, akcalls, akdiags>>

NextAccessKey ==
    \/ \E name \in AccessKeyNames \cup {""}, exp \in Expirations, perm \in KeyPermissions :
          AccessKeyCreate(name, exp, perm)
    \/ AccessKeyCreateCall
    \/ AccessKeyRead
    \/ AccessKeyReadLookup
    \/ \E name \in AccessKeyNames \cup {""}, exp \in Expirations, perm \in KeyPermissions :
          AccessKeyUpdate(name, exp, perm)
    \/ AccessKeyUpdateCall
    \/ AccessKeyDelete
    \/ AccessKeyDeleteCall
    \/ AccessKeyReturn
    \/ AccessKeyExternal

(***************************************************************************)
(* The provider with its resource types: the orchestration layer drives    *)
(* the handlers of one resource at a time, be it a bucket-key binding, an  *)
(* alias binding, a bucket or an access key; the step of a resource is     *)
(* taken while the other resources are at rest.  At the start nothing is   *)
(* stored and the directories are empty.                                   *)
(***************************************************************************)
InitProvider ==
    /\ KeyAtRest
    /\ AliasAtRest
    /\ BucketAtRest
    /\ AccessKeyAtRest
    /\ RaceAtRest

NextProvider ==
    \/ AliasAtRest /\ BucketAtRest /\ AccessKeyAtRest /\ Next
    \/ KeyAtRest /\ BucketAtRest /\ AccessKeyAtRest /\ NextAlias
    \/ KeyAtRest /\ AliasAtRest /\ AccessKeyAtRest /\ NextBucket
    \/ KeyAtRest /\ AliasAtRest /\ BucketAtRest /\ NextAccessKey

SpecProvider == InitProvider /\ [][NextProvider]_vars

ProviderTypeOK == TypeOK /\ AliasTypeOK /\ BucketTypeOK /\ AccessKeyTypeOK

(***************************************************************************)
(* Vocabulary of the bucket properties.                                    *)
(***************************************************************************)
\* the running or returned bucket handler is an update that changes the
\* global alias from a non-empty old one to a non-empty new one
BucketRename ==
    /\ bop = "update"
    /\ bBefore.global_alias # "" /\ bd.global_alias # ""
    /\ BucketAliasChanged(bBefore, bd)

\* the calls of the given API in the bucket handler's log
BucketCallsOf(api) == { i \in 1..Len(bcalls) : bcalls[i].api = api }

BucketMutationApis == {"CreateBucket", "AddBucketAlias", "RemoveBucketAlias",
                       "UpdateBucket", "DeleteBucket"}

(***************************************************************************)
(* C26. In a bucket update that changes the global alias from old to new,  *)
(* every remove-alias call (for old) comes after a successful add-alias    *)
(* call for new; when the add fails the handler returns its error without  *)
(* a remove call and old stays in the directory; and no step of the update *)
(* takes the bucket from having old or new to having neither.              *)
(***************************************************************************)
C26_AddBeforeRemove ==
    /\ [] ( BucketRename =>
             /\ \A i \in BucketCallsOf("RemoveBucketAlias") :
                   /\ bcalls[i].alias = bBefore.global_alias
                   /\ \E j \in BucketCallsOf("AddBucketAlias") :
                         /\ j < i
                         /\ bcalls[j].alias = bd.global_alias
                         /\ bcalls[j].status = "ok"
             /\ (\E j \in BucketCallsOf("AddBucketAlias") : bcalls[j].status # "ok") =>
                   /\ bpc = "done" /\ bdiags = "api"
                   /\ BucketCallsOf("RemoveBucketAlias") = {} )
    /\ [][ BucketRename' =>
             LET old == bBefore'.global_alias
                 new == bd'.global_alias
                 A == bucketDir.GlobalAliases
                 B == bucketDir'.GlobalAliases
             IN /\ (old \in A \/ new \in A) => (old \in B \/ new \in B)
                /\ (\A j \in 1..Len(bcalls') :
                        ~(bcalls'[j].api = "AddBucketAlias" /\ bcalls'[j].status = "ok"))
                   => (old \in A => old \in B) ]_vars

\* a rename that went through: the new alias added, then the old one
\* removed, then UpdateBucket and the refresh
C26_Witness ==
    /\ BucketRename /\ bpc = "done" /\ bdiags = "none"
    /\ Len(bcalls) = 4
    /\ bcalls[1] = BucketCall("AddBucketAlias", bd.global_alias, "ok")
    /\ bcalls[2] = BucketCall("RemoveBucketAlias", bBefore.global_alias, "ok")
    /\ bd.global_alias \in bucketDir.GlobalAliases
    /\ bBefore.global_alias \notin bucketDir.GlobalAliases

(***************************************************************************)
(* Concurrent operations on bucket-key bindings of bucket RaceBucketId.    *)
(* Each of the two callers runs one operation on a key of its own choice:  *)
(* a reconciliation (ensureBucketKeyPermissions: lookup, allow, deny) or a *)
(* delete (resourceBucketKeyDelete: lookup, deny).  The callers share      *)
(* nothing but the remote directory; their remote calls interleave in      *)
(* every order, and another writer may remove the bucket at any moment.    *)
(***************************************************************************)
\* the permission sets the concurrent operations are run with, and the
\* entries the bucket starts with: the Read and Write flags
RacePerms == { p \in bucketKeyPermissions : ~p.Owner }

RaceEntries == { e \in Entries : e.Permissions \in RacePerms }

RaceCall(p, api, perm, status) ==
    [by |-> p, api |-> api, key |-> rkey[p], perm |-> perm, status |-> status]

RaceTypeOK ==
    /\ buckets \in [BucketIds -> Buckets]
    /\ rop \in [Procs -> {"none", "ensure", "delete"}]
    /\ rpc \in [Procs -> {"idle", "fetch", "ensure_1", "ensure_2", "delete_deny", "done"}]
    /\ rkey \in [Procs -> KeyIds \cup {""}]
    /\ rdesired \in [Procs -> bucketKeyPermissions]
    /\ rallow \in [Procs -> bucketKeyPermissions]
    /\ rdeny \in [Procs -> bucketKeyPermissions]
    /\ rdiags \in [Procs -> {"none", "api"}]
    /\ rcalls \in Seq([by : Procs, api : {"AllowBucketKey", "DenyBucketKey"},
                       key : KeyIds, perm : bucketKeyPermissions,
                       status : {"ok", "notfound", "error"}])

\* no handler of the orchestration layer's own binding is running
KeyHandlerAtRest ==
    /\ d = NoResourceData
    /\ pc = "idle"
    /\ op = "none"
    /\ bucketID = ""
    /\ keyID = ""
    /\ desired = NewApiBucketKeyPerm
    /\ current = NewApiBucketKeyPerm
    /\ found = FALSE
    /\ allow = NewApiBucketKeyPerm
    /\ deny = NewApiBucketKeyPerm
    /\ calls = <<>>
    /\ diags = "none"
    /\ deletes = 0
    /\ idBefore = ""

InitRace ==
    /\ \E ks \in [KeyIds -> RaceEntries] :
         buckets = [b \in BucketIds |-> [exists |-> TRUE, keys |-> ks]]
    /\ keyNames = [k \in KeyIds |-> "name1"]
    /\ KeyHandlerAtRest
    /\ AliasAtRest
    /\ BucketAtRest
    /\ AccessKeyAtRest
    /\ RaceAtRest

\* caller p enters ensureBucketKeyPermissions for key k with desired set want
RaceEnsure(p, k, want) ==
    /\ UNCHANGED nonRaceVars
    /\ rpc[p] = "idle"
    /\ rop' = [rop EXCEPT ![p] = "ensure"]
    /\ rkey' = [rkey EXCEPT ![p] = k]
    /\ rdesired' = [rdesired EXCEPT ![p] = want]
    /\ rpc' = [rpc EXCEPT ![p] = "fetch"]
    /\ UNCHANGED <<buckets, keyNames, rallow, rdeny, rdiags, rcalls>>

\* caller p enters resourceBucketKeyDelete for key k
RaceDelete(p, k) ==
    /\ UNCHANGED nonRaceVars
    /\ rpc[p] = "idle"
    /\ rop' = [rop EXCEPT ![p] = "delete"]
    /\ rkey' = [rkey EXCEPT ![p] = k]
    /\ rpc' = [rpc EXCEPT ![p] = "fetch"]
    /\ UNCHANGED <<buckets, keyNames, rdesired, rallow, rdeny, rdiags, rcalls>>

\* fetchBucketKeyState of caller p and the sets computed from its result
RaceFetch(p) ==
    /\ UNCHANGED nonRaceVars
    /\ rpc[p] = "fetch"
    /\ \E resp \in GetBucketInfo(RaceBucketId) :
         LET r == fetchBucketKeyState(resp, rkey[p]) IN
         IF r.diags # "none"
         THEN /\ rpc' = [rpc EXCEPT ![p] = "done"]
              /\ rdiags' = [rdiags EXCEPT ![p] = r.diags]
              /\ UNCHANGED <<rallow, rdeny>>
         ELSE IF rop[p] = "ensure"
         THEN /\ rallow' = [rallow EXCEPT ![p] = EnsureAllow(rdesired[p], r.state)]
              /\ rdeny' = [rdeny EXCEPT ![p] = EnsureDeny(rdesired[p], r.state)]
              /\ rpc' = [rpc EXCEPT ![p] = "ensure_1"]
              /\ UNCHANGED rdiags
         ELSE /\ rdeny' = [rdeny EXCEPT ![p] =
                              IF r.found THEN DeleteDeny(r.state) ELSE NewApiBucketKeyPerm]
              /\ rpc' = [rpc EXCEPT ![p] =
                              IF r.found /\ hasAnyBucketKeyPerm(DeleteDeny(r.state))
                              THEN "delete_deny" ELSE "done"]
              /\ UNCHANGED <<rallow, rdiags>>
    /\ UNCHANGED <<buckets, keyNames, rop, rkey, rdesired, rcalls>>

\* one AllowBucketKey or DenyBucketKey call of caller p against the remote
RaceMutation(p, api, perm, status) ==
    /\ rcalls' = Append(rcalls, RaceCall(p, api, perm, status))
    /\ IF status = "ok"
       THEN \E e \in ( IF api = "AllowBucketKey"
                       THEN AllowBucketKey(buckets[RaceBucketId].keys[rkey[p]], perm)
                       ELSE DenyBucketKey(buckets[RaceBucketId].keys[rkey[p]], perm) ) :
               buckets' = [buckets EXCEPT ![RaceBucketId].keys[rkey[p]] = e]
       ELSE UNCHANGED buckets

\* step i of caller p's ensureBucketKeyPermissions
RaceEnsureApply(p, i, next) ==
    LET kind == EnsureOrder[i]
        perm == IF kind = "allow" THEN rallow[p] ELSE rdeny[p]
    IN IF hasAnyBucketKeyPerm(perm)
       THEN \E status \in MutationStatuses(RaceBucketId, rkey[p]) :
              /\ RaceMutation(p, ApiOf(kind), perm, status)
              /\ rpc' = [rpc EXCEPT ![p] = AfterMutation(status # "ok", next)]
              /\ rdiags' = [rdiags EXCEPT ![p] = IF status # "ok" THEN "api" ELSE "none"]
       ELSE /\ rpc' = [rpc EXCEPT ![p] = next]
            /\ UNCHANGED <<buckets, rdiags, rcalls>>

RaceEnsureFirst(p) ==
    /\ UNCHANGED nonRaceVars
    /\ rpc[p] = "ensure_1"
    /\ RaceEnsureApply(p, 1, "ensure_2")
    /\ UNCHANGED <<keyNames, rop, rkey, rdesired, rallow, rdeny>>

RaceEnsureSecond(p) ==
    /\ UNCHANGED nonRaceVars
    /\ rpc[p] = "ensure_2"
    /\ RaceEnsureApply(p, 2, "done")
    /\ UNCHANGED <<keyNames, rop, rkey, rdesired, rallow, rdeny>>

\* the deny call of caller p's resourceBucketKeyDelete
RaceDeleteApply(p) ==
    /\ UNCHANGED nonRaceVars
    /\ rpc[p] = "delete_deny"
    /\ \E status \in MutationStatuses(RaceBucketId, rkey[p]) :
         /\ RaceMutation(p, "DenyBucketKey", rdeny[p], status)
         /\ rpc' = [rpc EXCEPT ![p] = AfterMutation(status # "ok", "done")]
         /\ rdiags' = [rdiags EXCEPT ![p] = IF status # "ok" THEN "api" ELSE "none"]
    /\ UNCHANGED <<keyNames, rop, rkey, rdesired, rallow, rdeny>>

\* another writer deletes the bucket while the callers run
RaceBucketRemoved ==
    /\ UNCHANGED nonRaceVars
    /\ buckets[RaceBucketId].exists
    /\ buckets' = [buckets EXCEPT ![RaceBucketId] = NoBucket]
    /\ UNCHANGED <<keyNames, raceVars>>

NextRace ==
    \/ \E p \in Procs, k \in KeyIds, want \in RacePerms : RaceEnsure(p, k, want)
    \/ \E p \in Procs, k \in KeyIds : RaceDelete(p, k)
    \/ \E p \in Procs : RaceFetch(p)
    \/ \E p \in Procs : RaceEnsureFirst(p)
    \/ \E p \in Procs : RaceEnsureSecond(p)
    \/ \E p \in Procs : RaceDeleteApply(p)
    \/ RaceBucketRemoved

SpecRace == InitRace /\ [][NextRace]_vars

(***************************************************************************)
(* Vocabulary of the properties of all resource types.                     *)
(***************************************************************************)
\* the last remote call of the running or returned bucket handler
BucketLastCall == bcalls[Len(bcalls)]

\* the last remote call of the running or returned access key handler
AccessKeyLastCall == akcalls[Len(akcalls)]

(***************************************************************************)
(* C29. A Read of any resource (bucket-key binding, alias binding, bucket, *)
(* access key), on its own or as the end of a create or update, issues one *)
(* directory lookup (GetBucketInfo, for the access key GetKeyInfo) and no  *)
(* other call, and leaves the remote directory as it was.                  *)
(***************************************************************************)
C29_ReadOnlyLooksUp ==
    /\ [] ( /\ \A i \in CallIdx : calls[i].by = "read" => calls[i].api = "GetBucketInfo"
            /\ op = "read" => \A i \in CallIdx : calls[i].by = "read"
            /\ aop = "read" => \A i \in 1..Len(acalls) : acalls[i].api = "GetBucketInfo"
            /\ bop = "read" => \A i \in 1..Len(bcalls) : bcalls[i].api = "GetBucketInfo"
            /\ akop = "read" => \A i \in 1..Len(akcalls) : akcalls[i].api = "GetKeyInfo" )
    /\ [][ /\ pc = "read" =>
               /\ buckets' = buckets /\ keyNames' = keyNames
               /\ Len(calls') = Len(calls) + 1
               /\ calls'[Len(calls')].api = "GetBucketInfo"
           /\ apc = "read" =>
               /\ aliasDir' = aliasDir
               /\ Len(acalls') = Len(acalls) + 1
               /\ acalls'[Len(acalls')].api = "GetBucketInfo"
           /\ bpc = "read" =>
               /\ bucketDir' = bucketDir
               /\ Len(bcalls') = Len(bcalls) + 1
               /\ bcalls'[Len(bcalls')].api = "GetBucketInfo"
           /\ akpc = "read" =>
               /\ akDir' = akDir
               /\ Len(akcalls') = Len(akcalls) + 1
               /\ akcalls'[Len(akcalls')].api = "GetKeyInfo" ]_vars

\* the Read at the end of a bucket update that renamed the alias: after
\* three mutation calls the lookup, on a bucket that has the new alias only
C29_Witness ==
    /\ bop = "update" /\ bpc = "done" /\ bdiags = "none"
    /\ Len(bcalls) = 4
    /\ BucketLastCall = BucketCall("GetBucketInfo", "", "ok")
    /\ bd.global_aliases = bucketDir.GlobalAliases
    /\ bucketDir.GlobalAliases = {bd.global_alias}

(***************************************************************************)
(* C30 as claimed. Whenever a create, update or delete of any resource     *)
(* returns an error, the resource identifier equals its value before the   *)
(* operation.                                                              *)
(***************************************************************************)
C30_ErrorKeepsIdentifier ==
    /\ (op \in {"create", "update", "delete"} /\ pc = "done" /\ diags # "none")
          => d.id = idBefore
    /\ (aop \in {"create", "delete"} /\ apc = "done" /\ adiags # "none")
          => a.id = aBefore.id
    /\ (bop \in {"create", "update", "delete"} /\ bpc = "done" /\ bdiags # "none")
          => bd.id = bBefore.id
    /\ (akop \in {"create", "update", "delete"} /\ akpc = "done" /\ akdiags # "none")
          => akd.id = akBefore.id

(***************************************************************************)
(* C30. Whenever a create, update or delete of any resource returns an     *)
(* error, the resource identifier equals its value before the operation,   *)
(* except in a create whose mutation calls succeeded and whose closing     *)
(* Read failed in its lookup: that create returns the error with the       *)
(* identifier it has just set.  A create that fails earlier leaves the     *)
(* identifier unset and a failed delete leaves it set.                     *)
(***************************************************************************)
C30_ErrorKeepsIdentifierButReadOfCreate ==
    /\ (op \in {"create", "update", "delete"} /\ pc = "done" /\ diags # "none") =>
          IF op = "create" /\ calls # <<>> /\ LastCall.by = "read"
          THEN LastCall.status = "error" /\ d.id = BucketKeyId(bucketID, keyID)
          ELSE d.id = idBefore
    /\ (aop \in {"create", "delete"} /\ apc = "done" /\ adiags # "none") =>
          IF aop = "create" /\ acalls # <<>> /\ AliasLastCall.api = "GetBucketInfo"
          THEN AliasLastCall.status = "error" /\ a.id = ParsedId /\ a.id # EmptyString
          ELSE a.id = aBefore.id
    /\ (bop \in {"create", "update", "delete"} /\ bpc = "done" /\ bdiags # "none") =>
          IF bop = "create" /\ bcalls # <<>> /\ BucketLastCall.api = "GetBucketInfo"
          THEN BucketLastCall.status = "error" /\ bd.id = NewBucketId
          ELSE bd.id = bBefore.id
    /\ (akop \in {"create", "update", "delete"} /\ akpc = "done" /\ akdiags # "none")
          => akd.id = akBefore.id

\* a bucket update whose closing Read failed: the error is returned and the
\* identifier is the one the bucket had
C30_Witness ==
    /\ bop = "update" /\ bpc = "done" /\ bdiags = "api"
    /\ Len(bcalls) = 2
    /\ bcalls[1] = BucketCall("UpdateBucket", "", "ok")
    /\ BucketLastCall = BucketCall("GetBucketInfo", "", "error")
    /\ bd.id = NewBucketId /\ bBefore.id = NewBucketId

(***************************************************************************)
(* Vocabulary of the properties of concurrent operations.                  *)
(***************************************************************************)
\* the permissions the operation of caller p leaves on its pair when it
\* runs alone and succeeds: the desired set, for a delete none
RaceTarget(p) == IF rop[p] = "delete" THEN NewApiBucketKeyPerm ELSE rdesired[p]

\* the operation of caller p has returned without error
RaceReturnedOk(p) == rpc[p] = "done" /\ rdiags[p] = "none"

\* the last mutation call the directory received
RaceLastCall == rcalls[Len(rcalls)]

\* two reconciliations of the same pair have both returned without error,
\* on a bucket that still exists, and a mutation call was issued
RaceSamePairDone ==
    /\ \A p \in Procs : rop[p] = "ensure" /\ RaceReturnedOk(p)
    /\ rkey["p1"] = rkey["p2"]
    /\ buckets[RaceBucketId].exists
    /\ rcalls # <<>>

(***************************************************************************)
(* C23. Concurrent operations on different bucket/key pairs are            *)
(* independent.  Under every interleaving of their lookups and mutation    *)
(* calls, an operation that has returned without error on a bucket that    *)
(* still exists has left its own pair with the permissions it leaves when  *)
(* run alone (the desired set, after a delete none), and no step of an     *)
(* operation changes the directory entry of a key other than its own.      *)
(***************************************************************************)
C23_DifferentPairsIndependent ==
    /\ [] ( \A p \in Procs :
              ( /\ RaceReturnedOk(p)
                /\ \A q \in Procs \ {p} : rkey[q] # rkey[p]
                /\ buckets[RaceBucketId].exists )
              => RemotePerms(RaceBucketId, rkey[p]) = RaceTarget(p) )
    /\ [][ \A p \in Procs :
              rpc'[p] # rpc[p] =>
                 \A k \in KeyIds \ {rkey'[p]} :
                    buckets'[RaceBucketId].keys[k] = buckets[RaceBucketId].keys[k] ]_vars

\* a reconciliation of k1 and a delete of k2 whose mutation calls
\* interleaved: allow by p1, deny by p2, deny by p1, all successful
C23_Witness ==
    /\ rop["p1"] = "ensure" /\ rop["p2"] = "delete"
    /\ rkey["p1"] = "k1" /\ rkey["p2"] = "k2"
    /\ RaceReturnedOk("p1") /\ RaceReturnedOk("p2")
    /\ buckets[RaceBucketId].exists
    /\ Len(rcalls) = 3
    /\ rcalls[1].by = "p1" /\ rcalls[2].by = "p2" /\ rcalls[3].by = "p1"
    /\ \A i \in 1..3 : rcalls[i].status = "ok"
    /\ RemotePerms(RaceBucketId, "k1") = rdesired["p1"]
    /\ ~hasAnyBucketKeyPerm(RemotePerms(RaceBucketId, "k2"))

(***************************************************************************)
(* C24 as claimed. When two reconciliations of the same bucket/key pair    *)
(* race, then after both have completed the remote permission set is the   *)
(* desired set of the reconciliation that issued the last mutation call.   *)
(***************************************************************************)
C24_LastCallerDesiredWins ==
    RaceSamePairDone =>
        RemotePerms(RaceBucketId, rkey["p1"]) = rdesired[RaceLastCall.by]

(***************************************************************************)
(* C24. When two reconciliations of the same bucket/key pair race, the     *)
(* last mutation call wins for the flags it names: after both have         *)
(* completed, every flag named by the last mutation call has its value in  *)
(* the desired set of the reconciliation that issued that call, and every  *)
(* flag on which the two desired sets agree has that value.                *)
(***************************************************************************)
C24_LastCallWinsItsFlags ==
    RaceSamePairDone =>
        LET remote == RemotePerms(RaceBucketId, rkey["p1"]) IN
        /\ \A f \in Flags :
             RaceLastCall.perm[f] => remote[f] = rdesired[RaceLastCall.by][f]
        /\ \A f \in Flags :
             rdesired["p1"][f] = rdesired["p2"][f] => remote[f] = rdesired["p1"][f]

\* two reconciliations of one pair that both looked up a key without
\* permissions and then each granted its own flag: the key holds both
C24_Witness ==
    /\ RaceSamePairDone
    /\ Len(rcalls) = 2
    /\ rcalls[1].by # rcalls[2].by
    /\ rcalls[1].api = "AllowBucketKey" /\ rcalls[2].api = "AllowBucketKey"
    /\ rdesired["p1"] # rdesired["p2"]
    /\ \A p \in Procs : RemotePerms(RaceBucketId, rkey["p1"]) # rdesired[p]

(***************************************************************************)
(* C25. For every resource type (bucket, access key, alias binding,        *)
(* bucket-key binding) a not-found (404) response on the read path clears  *)
(* the identifier and returns no error, and a not-found response on the    *)
(* delete path returns success: no call of a read or of a delete that      *)
(* ended with not-found makes the handler return an error.                 *)
(***************************************************************************)
C25_NotFoundIsAbsence ==
    /\ (op = "read" /\ pc = "done" /\ calls # <<>> /\ LastCall.status = "notfound")
          => diags = "none" /\ d.id = ""
    /\ (op = "delete" /\ pc = "done" /\ calls # <<>> /\ LastCall.status = "notfound")
          => diags = "none"
    /\ (aop = "read" /\ apc = "done" /\ acalls # <<>> /\ AliasLastCall.status = "notfound")
          => adiags = "none" /\ a.id = EmptyString
    /\ (aop = "delete" /\ apc = "done" /\ acalls # <<>> /\ AliasLastCall.status = "notfound")
          => adiags = "none"
    /\ (bop = "read" /\ bpc = "done" /\ bcalls # <<>> /\ BucketLastCall.status = "notfound")
          => bdiags = "none" /\ bd.id = ""
    /\ (bop = "delete" /\ bpc = "done" /\ bcalls # <<>> /\ BucketLastCall.status = "notfound")
          => bdiags = "none"
    /\ (akop = "read" /\ akpc = "done" /\ akcalls # <<>> /\ AccessKeyLastCall.status = "notfound")
          => akdiags = "none" /\ akd.id = ""
    /\ (akop = "delete" /\ akpc = "done" /\ akcalls # <<>> /\ AccessKeyLastCall.status = "notfound")
          => akdiags = "none"
    /\ \A i \in 1..Len(rcalls) :
          ( /\ rop[rcalls[i].by] = "delete" /\ rpc[rcalls[i].by] = "done"
            /\ rcalls[i].status = "notfound" )
          => rdiags[rcalls[i].by] = "none"

(***************************************************************************)
(* C28. For every resource type with an update (bucket, access key,        *)
(* bucket-key binding), an update in which none of the managed attributes  *)
(* changed issues no mutation call: it goes to the refresh Read, whose     *)
(* lookup is then its only call (for the bucket one GetBucketInfo).        *)
(***************************************************************************)
C28_NoChangeOnlyRefreshes ==
    /\ [] ( /\ ( /\ bop = "update" /\ bpc \notin {"idle", "done"}
                 /\ bBefore.global_alias = bd.global_alias
                 /\ bBefore.website_access_enabled = bd.website_access_enabled
                 /\ bBefore.website_config_index_document = bd.website_config_index_document
                 /\ bBefore.quotas = bd.quotas )
               => bcalls = <<>> /\ bpc # "update"
            /\ ( /\ akop = "update" /\ akpc \notin {"idle", "done"}
                 /\ akBefore.name = akd.name
                 /\ akBefore.expiration = akd.expiration
                 /\ akBefore.permissions = akd.permissions )
               => akcalls = <<>> /\ akpc = "read" )
    /\ [][ ( /\ pc = "idle" /\ op' = "update" /\ diags' = "none"
             /\ d'.read = d.read /\ d'.write = d.write /\ d'.owner = d.owner )
           => pc' = "read" /\ calls' = <<>> ]_vars

====
